---- MODULE Spec2Model ----
(***************************************************************************)
(* Model of the request handlers of aws-serverless-projects: the ETL       *)
(* pipeline (extract / transform / load), the WebSocket chat fan-out and   *)
(* the order event dispatcher, together with the parts of the managed      *)
(* stores (tables, staging bucket) that the handlers rely on.              *)
(***************************************************************************)
EXTENDS Bags, FiniteSets, Integers, Sequences, TLC

VARIABLES
    source,      \* etl-source-data: sequence of items in scan order
    staging,     \* staging bucket: function from object key to blob (a sequence of records)
    dest,        \* etl-destination-data: bag of items
    clock,       \* wall clock tick used to stamp staging keys
    extractOut,  \* last response of extract.handler
    transformOut,\* last response of transform.handler
    loadOut,     \* last response of load.handler
    lastLoad,    \* inputs of the last load.handler invocation
    connections, \* websocket-connections table: bag of connection items
    messages,    \* websocket-messages table: bag of message items
    attempts,    \* post_to_connection calls of the last invocation: bag of connection ids
    lastBroadcast, \* inputs and scan result of the last broadcast_message call
    chatOut,     \* response of the last websocket handler invocation
    live,        \* connection ids that have connected and not since disconnected or been evicted
    orders,      \* orders table: bag of order items
    dispatched,  \* per order id: what has been dispatched for it so far
    orderOut,    \* last response of order_processor.handler
    items_table, \* serverless-api-items table: bag of items
    apiOut,      \* response of the last api handler invocation
    inventory,   \* event-driven-inventory table: bag of items
    inventoryOut,\* last response of inventory_processor.handler
    stream,      \* realtime-data-stream: the batch of Kinesis records to be delivered
    metrics,     \* realtime-processed-metrics table: bag of items
    archive,     \* archive bucket: set of object keys under raw/
    streamOut,   \* last response of the realtime processor
    running      \* two concurrent invocations of one handler: inputs and positions

etlVars == <<source, staging, dest, clock, extractOut, transformOut, loadOut, lastLoad>>
chatVars == <<connections, messages, attempts, lastBroadcast, chatOut, live>>
orderVars == <<orders, dispatched, orderOut>>
apiVars == <<items_table, apiOut>>
concVars == <<inventory, inventoryOut, running>>
streamVars == <<stream, metrics, archive, streamOut>>
vars == <<etlVars, chatVars, orderVars, apiVars, concVars, streamVars>>
exceptEtl == <<chatVars, orderVars, apiVars, concVars, streamVars>>
exceptChat == <<etlVars, orderVars, apiVars, concVars, streamVars>>
exceptOrders == <<etlVars, chatVars, apiVars, concVars, streamVars>>
exceptApi == <<etlVars, chatVars, orderVars, concVars, streamVars>>

(***************************************************************************)
(* Values.  Every JSON / Python / DynamoDB value has the same shape:       *)
(*   t : the type tag                                                      *)
(*   n : the number, for numbers and for digit strings                     *)
(*   d : the denominator of a float that is no whole number (else 1)       *)
(*   s : the text, for strings ("#" is the decimal text of n, "#.0" the    *)
(*       text Python prints for the float n)                               *)
(*   m : the members, for maps (field -> value) and lists ("0".. -> value) *)
(***************************************************************************)
NoMembers == <<>>
Int_(n) == [t |-> "int", n |-> n, d |-> 1, s |-> "", m |-> NoMembers]
Float(n) == [t |-> "float", n |-> n, d |-> 1, s |-> "", m |-> NoMembers]
Dec(n) == [t |-> "dec", n |-> n, d |-> 1, s |-> "", m |-> NoMembers]
Str(s) == [t |-> "str", n |-> 0, d |-> 1, s |-> s, m |-> NoMembers]
DigitStr(n) == [t |-> "str", n |-> n, d |-> 1, s |-> "#", m |-> NoMembers]
FloatStr(n) == [t |-> "str", n |-> n, d |-> 1, s |-> "#.0", m |-> NoMembers]
Bool(b) == [t |-> "bool", n |-> IF b THEN 1 ELSE 0, d |-> 1, s |-> "", m |-> NoMembers]
Null == [t |-> "null", n |-> 0, d |-> 1, s |-> "", m |-> NoMembers]
Map(m) == [t |-> "map", n |-> 0, d |-> 1, s |-> "", m |-> m]
List(m) == [t |-> "list", n |-> 0, d |-> 1, s |-> "", m |-> m]
\* a ratio of two integers in lowest terms, the value of a float division
RECURSIVE Gcd(_, _)
Gcd(a, b) == IF b = 0 THEN a ELSE Gcd(b, a % b)
Abs(a) == IF a < 0 THEN -a ELSE a
Ratio(a, b) ==
    LET g == Gcd(Abs(a), Abs(b))
        sgn == IF b < 0 THEN -1 ELSE 1
    IN  [t |-> "float", n |-> (sgn * a) \div g, d |-> (sgn * b) \div g, s |-> "", m |-> NoMembers]

IsNumber(v) == v.t \in {"int", "float", "dec"}
Has(rec, f) == f \in DOMAIN rec
Get(rec, f, default) == IF Has(rec, f) THEN rec[f] ELSE default
EmptyRec == <<>>
\* str(value) of Python
PyStr(v) ==
    CASE v.t = "str" -> v
      [] v.t = "int" -> DigitStr(v.n)
      [] v.t = "float" -> IF v.d = 1 THEN FloatStr(v.n) ELSE Str("<fraction>")
      [] v.t = "dec" -> DigitStr(v.n)
      [] v.t = "bool" -> Str(IF v.n = 1 THEN "True" ELSE "False")
      [] v.t = "null" -> Str("None")
      [] v.t = "map" -> Str("{..}")
      [] OTHER -> Str("[..]")

(***************************************************************************)
(* The staging bucket and the destination table                            *)
(***************************************************************************)
\* an object key "<prefix>/<yyyy>/<mm>/<dd>/data_<stamp>.json"
Key(prefix, stamp) == [prefix |-> prefix, stamp |-> stamp]
\* key.replace(from + "/", to + "/"): the date and stamp part holds no prefix text
ReplacePrefix(key, from, to) == IF key.prefix = from THEN [key EXCEPT !.prefix = to] ELSE key
PutObject(bucket, key, blob) ==
    [k \in DOMAIN bucket \cup {key} |-> IF k = key THEN blob ELSE bucket[k]]

\* the key schema of etl-destination-data: id (S) and timestamp (S)
IsKeyString(item, f) == Has(item, f) /\ item[f].t = "str" /\ item[f].s # ""
DestKeyOk(item) == IsKeyString(item, "id") /\ IsKeyString(item, "timestamp")
DestKey(item) == <<item["id"], item["timestamp"]>>
\* table.put_item: the item replaces the stored item with the same primary key
PutItemAppend(table, item) == table (+) SetToBag({item})
PutItem(table, item) ==
    LET others == {x \in BagToSet(table) : DestKey(x) # DestKey(item)}
    IN  [x \in others \cup {item} |-> IF x = item THEN 1 ELSE table[x]]

(***************************************************************************)
(* load.handler                                                            *)
(***************************************************************************)
MaxErrorDetails == 5

\* isinstance(v, (int, float)): bool is a subclass of int
IsIntOrFloat(v) == v.t \in {"int", "float", "bool"}
\* Decimal(str(v)) raises InvalidOperation on "True" / "False"
DecimalRaises(v) == v.t = "bool"
ToDecimal(v) == [v EXCEPT !.t = "dec"]
CoerceNested(v) == IF IsIntOrFloat(v) THEN ToDecimal(v) ELSE PyStr(v)
CoerceMembers(m) == [k \in {k \in DOMAIN m : m[k].t # "null"} |-> CoerceNested(m[k])]
CoerceValue(v) ==
    CASE IsIntOrFloat(v) -> ToDecimal(v)
      [] v.t = "map" -> Map(CoerceMembers(v.m))
      [] v.t = "list" -> List([k \in DOMAIN v.m |-> PyStr(v.m[k])])
      [] OTHER -> PyStr(v)
ValueRaises(v) ==
    \/ IsIntOrFloat(v) /\ DecimalRaises(v)
    \/ v.t = "map" /\ \E k \in DOMAIN v.m : IsIntOrFloat(v.m[k]) /\ DecimalRaises(v.m[k])
CoerceRaises(rec) == \E f \in DOMAIN rec : rec[f].t # "null" /\ ValueRaises(rec[f])
ToItem(rec) == [f \in {f \in DOMAIN rec : rec[f].t # "null"} |-> CoerceValue(rec[f])]

ErrorMsg(kind, rec) == [kind |-> kind, id |-> Get(rec, "id", Str("unknown")), rec |-> rec]
MissingIdMsg(rec) == [kind |-> "missing_id", id |-> Null, rec |-> rec]
MissingTimestampMsg(rec) == [kind |-> "missing_timestamp", id |-> rec["id"], rec |-> EmptyRec]

\* an iteration that skips a record without id and records nothing
LoadRecordSilentDrop(st, rec, storeFails) ==
    IF ~Has(rec, "id") THEN st
    ELSE IF ~Has(rec, "timestamp")
    THEN [st EXCEPT !.errors = Append(@, MissingTimestampMsg(rec))]
    ELSE IF CoerceRaises(rec)
    THEN [st EXCEPT !.errors = Append(@, ErrorMsg("conversion", rec))]
    ELSE IF storeFails \/ ~DestKeyOk(ToItem(rec))
    THEN [st EXCEPT !.errors = Append(@, ErrorMsg("put_item", rec))]
    ELSE [st EXCEPT !.table = PutItem(@, ToItem(rec)), !.loaded = @ + 1]
\* one iteration of the record loop; st = [table, loaded, errors]
LoadRecord(st, rec, storeFails) ==
    IF ~Has(rec, "id") THEN [st EXCEPT !.errors = Append(@, MissingIdMsg(rec))]
    ELSE IF ~Has(rec, "timestamp")
    THEN [st EXCEPT !.errors = Append(@, MissingTimestampMsg(rec))]
    ELSE IF CoerceRaises(rec)
    THEN [st EXCEPT !.errors = Append(@, ErrorMsg("conversion", rec))]
    ELSE IF storeFails \/ ~DestKeyOk(ToItem(rec))
    THEN [st EXCEPT !.errors = Append(@, ErrorMsg("put_item", rec))]
    ELSE [st EXCEPT !.table = PutItem(@, ToItem(rec)), !.loaded = @ + 1]

\* a loop that stops at the first record without id or timestamp
RECURSIVE LoadLoopBreak(_, _, _, _)
LoadLoopBreak(st, batch, i, down) ==
    IF i > Len(batch) THEN st
    ELSE IF ~Has(batch[i], "id") \/ ~Has(batch[i], "timestamp")
    THEN LoadRecord(st, batch[i], i = down)
    ELSE LoadLoopBreak(LoadRecord(st, batch[i], i = down), batch, i + 1, down)
\* the record loop from record i on; down is the index of the record whose
\* put_item call fails for a reason of the store (0: none)
RECURSIVE LoadLoop(_, _, _, _)
LoadLoop(st, batch, i, down) ==
    IF i > Len(batch) THEN st
    ELSE LoadLoop(LoadRecord(st, batch[i], i = down), batch, i + 1, down)

FirstErrorsAll(errors) == errors
FirstErrors(errors) == SubSeq(errors, 1, IF Len(errors) < MaxErrorDetails THEN Len(errors) ELSE MaxErrorDetails)

NoLoadResp == [called |-> FALSE, raised |-> FALSE, statusCode |-> 0, recordsLoaded |-> 0,
               errors |-> 0, errorDetails |-> <<>>]
LoadRaised == [NoLoadResp EXCEPT !.called = TRUE, !.raised = TRUE]
LoadResp(loaded, errors) ==
    [called |-> TRUE, raised |-> FALSE, statusCode |-> 200, recordsLoaded |-> loaded,
     errors |-> Len(errors), errorDetails |-> FirstErrors(errors)]

\* the event of load.handler: transformedKey at the top level, under Payload, or absent
LoadEvent(shape, key) == [shape |-> shape, key |-> key]
\* the handler as it would be if a failing archive copy were raised
LoadHandlerArchiveRaises(event, bucket, table, down, archiveFails) ==
    IF event.shape \notin {"direct", "payload"} \/ event.key \notin DOMAIN bucket
    THEN [resp |-> LoadRaised, table |-> table, bucket |-> bucket, errors |-> <<>>]
    ELSE LET batch == bucket[event.key]
             st == LoadLoop([table |-> table, loaded |-> 0, errors |-> <<>>], batch, 1, down)
         IN  IF Len(batch) = 0
             THEN [resp |-> LoadResp(0, <<>>), table |-> table, bucket |-> bucket,
                   errors |-> <<>>]
             ELSE IF archiveFails
             THEN [resp |-> LoadRaised, table |-> st.table, bucket |-> bucket,
                   errors |-> st.errors]
             ELSE [resp |-> LoadResp(st.loaded, st.errors), table |-> st.table,
                   errors |-> st.errors,
                   bucket |-> PutObject(bucket,
                                        ReplacePrefix(event.key, "transformed", "archived"),
                                        batch)]
\* the whole handler: result [resp, table, bucket, errors], errors being the
\* handler's local list of error messages when it returns
LoadHandler(event, bucket, table, down, archiveFails) ==
    IF event.shape \notin {"direct", "payload"}
    THEN [resp |-> LoadRaised, table |-> table, bucket |-> bucket, errors |-> <<>>]
    ELSE IF event.key \notin DOMAIN bucket
    THEN [resp |-> LoadRaised, table |-> table, bucket |-> bucket, errors |-> <<>>]
    ELSE LET batch == bucket[event.key]
             st == LoadLoop([table |-> table, loaded |-> 0, errors |-> <<>>], batch, 1, down)
             archiveKey == ReplacePrefix(event.key, "transformed", "archived")
         IN  IF Len(batch) = 0
             THEN [resp |-> LoadResp(0, <<>>), table |-> table, bucket |-> bucket,
                   errors |-> <<>>]
             ELSE [resp |-> LoadResp(st.loaded, st.errors), table |-> st.table,
                   errors |-> st.errors,
                   bucket |-> IF archiveFails \/ archiveKey = event.key THEN bucket
                              ELSE PutObject(bucket, archiveKey, batch)]

(***************************************************************************)
(* extract.handler                                                         *)
(***************************************************************************)
\* the ISO-8601 text of clock tick n (one tick is one day)
TimeStr(n) == [t |-> "str", n |-> n, d |-> 1, s |-> "T"]
\* datetime.fromisoformat(timestamp_str) raises unless the text is a time;
\* timestamp_str.endswith raises unless the value is a string
ParseRaises(ts) == ~(ts.t = "str" /\ ts.s = "T")
\* start_date <= item_timestamp < end_date, the day before now
InRange(ts, now) == ts.n = now - 1

\* json.dumps(value, default=str) followed by json.loads: a Decimal becomes text
RECURSIVE JsonDefaultStr(_)
JsonDefaultStr(v) ==
    CASE v.t = "dec" -> [v EXCEPT !.t = "str", !.s = "#"]
      [] v.t \in {"map", "list"} -> [v EXCEPT !.m = [k \in DOMAIN v.m |-> JsonDefaultStr(v.m[k])]]
      [] OTHER -> v
JsonRecord(rec) == [f \in DOMAIN rec |-> JsonDefaultStr(rec[f])]

ExtractKeeps(item, now) == Has(item, "timestamp") => InRange(item["timestamp"], now)
ExtractRaises(items) ==
    \E i \in DOMAIN items : Has(items[i], "timestamp") /\ ParseRaises(items[i]["timestamp"])
ExtractedRecords(items, now) == SelectSeq(items, LAMBDA item : ExtractKeeps(item, now))

NoExtractResp == [called |-> FALSE, raised |-> FALSE, statusCode |-> 0, recordsExtracted |-> 0,
                  stagingKey |-> Key("none", 0)]
ExtractRaised == [NoExtractResp EXCEPT !.called = TRUE, !.raised = TRUE]
\* the whole handler: result [resp, bucket]
ExtractHandler(items, bucket, now, putFails) ==
    IF ExtractRaises(items) \/ putFails
    THEN [resp |-> ExtractRaised, bucket |-> bucket]
    ELSE LET records == ExtractedRecords(items, now)
             stagingKey == Key("extracted", now)
             blob == [i \in DOMAIN records |-> JsonRecord(records[i])]
         IN  [resp |-> [called |-> TRUE, raised |-> FALSE, statusCode |-> 200,
                        recordsExtracted |-> Len(records), stagingKey |-> stagingKey],
              bucket |-> PutObject(bucket, stagingKey, blob)]

(***************************************************************************)
(* transform.handler                                                       *)
(***************************************************************************)
IsWrapped(v, tag) == v.t = "map" /\ tag \in DOMAIN v.m
\* float(x): [ok, v]
PyFloat(v) ==
    CASE v.t \in {"int", "float", "dec", "bool"} -> [ok |-> TRUE, v |-> [v EXCEPT !.t = "float"]]
      [] v.t = "str" /\ v.s \in {"#", "#.0"} ->
            [ok |-> TRUE, v |-> [v EXCEPT !.t = "float", !.s = ""]]
      [] OTHER -> [ok |-> FALSE, v |-> Null]
\* int(x): [ok, v]; a float is truncated towards zero, the text of a fraction
\* or of a float is refused
Trunc(n, d) == IF n >= 0 THEN n \div d ELSE -((-n) \div d)
PyInt(v) ==
    CASE v.t \in {"int", "float", "dec", "bool"} -> [ok |-> TRUE, v |-> Int_(Trunc(v.n, v.d))]
      [] v.t = "str" /\ v.s = "#" /\ v.d = 1 -> [ok |-> TRUE, v |-> Int_(v.n)]
      [] OTHER -> [ok |-> FALSE, v |-> Null]
\* total / count for a float total and an int count
Divide(total, count) == Ratio(total.n, total.d * count.n)

\* the unwrapping of type-tagged values; raises when float(value['N']) does
UnwrapRaises(v) == ~IsWrapped(v, "S") /\ IsWrapped(v, "N") /\ ~PyFloat(v.m["N"]).ok
Unwrap(v) ==
    CASE v.t = "dec" -> PyFloat(v).v
      [] IsWrapped(v, "S") -> v.m["S"]
      [] IsWrapped(v, "N") -> PyFloat(v.m["N"]).v
      [] OTHER -> v
RecordDict(rec) == [f \in DOMAIN rec |-> Unwrap(rec[f])]

ReservedFields == {"id", "partition_key", "timestamp", "value", "count", "total_value"}
AveragePositiveOnly(rd) ==
    /\ Has(rd, "total_value") /\ Has(rd, "count")
    /\ PyFloat(rd["total_value"]).ok /\ PyInt(rd["count"]).ok
    /\ PyInt(rd["count"]).v.n > 0
AverageNonZero(rd) ==
    /\ Has(rd, "total_value") /\ Has(rd, "count")
    /\ PyFloat(rd["total_value"]).ok /\ PyInt(rd["count"]).ok
    /\ PyInt(rd["count"]).v.n # 0
\* whether the handler computes the average of a record
HasAverage(rd) == AveragePositiveOnly(rd)
DataFields(rd) ==
    {f \in DOMAIN rd \ ReservedFields : TRUE}
        \cup (IF Has(rd, "value") /\ PyFloat(rd["value"]).ok THEN {"value"} ELSE {})
        \cup (IF Has(rd, "count") /\ PyInt(rd["count"]).ok THEN {"count"} ELSE {})
        \cup (IF HasAverage(rd) THEN {"average"} ELSE {})
\* the copy loop runs last, so a source field named average replaces the computed one
DataOf(rd) ==
    [f \in DataFields(rd) |->
        CASE f \in DOMAIN rd \ ReservedFields -> rd[f]
          [] f = "value" -> PyFloat(rd["value"]).v
          [] f = "count" -> PyInt(rd["count"]).v
          [] OTHER -> Divide(PyFloat(rd["total_value"]).v, PyInt(rd["count"]).v)]
TransformedRecord(rd, now) ==
    ("id" :> Get(rd, "id", Get(rd, "partition_key", Str("unknown"))))
    @@ ("timestamp" :> Get(rd, "timestamp", TimeStr(now)))
    @@ ("processed_at" :> TimeStr(now))
    @@ ("data" :> Map(DataOf(rd)))
TransformRaisesNothing(rec) == FALSE
TransformRaises(rec) == \E f \in DOMAIN rec : UnwrapRaises(rec[f])
TransformRecord(rec, now) == TransformedRecord(RecordDict(rec), now)

\* the record loop from record i on; acc = [out, origin], origin[j] being the
\* index of the input record that output record j was made from
RECURSIVE TransformLoop(_, _, _, _)
TransformLoop(acc, batch, i, now) ==
    IF i > Len(batch) THEN acc
    ELSE IF TransformRaises(batch[i]) THEN TransformLoop(acc, batch, i + 1, now)
    ELSE TransformLoop([out |-> Append(acc.out, TransformRecord(batch[i], now)),
                        origin |-> Append(acc.origin, i)], batch, i + 1, now)

NoTransformResp == [called |-> FALSE, raised |-> FALSE, statusCode |-> 0,
                    recordsTransformed |-> 0, transformedKey |-> Key("none", 0),
                    originalKey |-> Key("none", 0), origin |-> <<>>]
TransformRaised == [NoTransformResp EXCEPT !.called = TRUE, !.raised = TRUE]
TransformResp(n, stagingKey, origin) ==
    [called |-> TRUE, raised |-> FALSE, statusCode |-> 200, recordsTransformed |-> n,
     transformedKey |-> ReplacePrefix(stagingKey, "extracted", "transformed"),
     originalKey |-> stagingKey, origin |-> origin]
\* the whole handler: result [resp, bucket]
TransformHandler(event, bucket, now, putFails) ==
    IF event.shape \notin {"direct", "payload"}
    THEN [resp |-> TransformRaised, bucket |-> bucket]
    ELSE IF event.key \notin DOMAIN bucket
    THEN [resp |-> TransformRaised, bucket |-> bucket]
    ELSE IF Len(bucket[event.key]) = 0
    THEN [resp |-> TransformResp(0, event.key, <<>>), bucket |-> bucket]
    ELSE IF putFails
    THEN [resp |-> TransformRaised, bucket |-> bucket]
    ELSE LET acc == TransformLoop([out |-> <<>>, origin |-> <<>>], bucket[event.key], 1, now)
         IN  [resp |-> TransformResp(Len(acc.out), event.key, acc.origin),
              bucket |-> PutObject(bucket, ReplacePrefix(event.key, "extracted", "transformed"),
                                   acc.out)]

(***************************************************************************)
(* Inputs of the loader: transformed blobs                                 *)
(***************************************************************************)
MaxMixed == 2       \* longest run of records drawn from every kind
MaxPad == 5         \* longest run of failing records that follows it
MaxDown == 2        \* last record index at which the store may fail a write

GoodA == ("id" :> Str("a")) @@ ("timestamp" :> Str("t1")) @@ ("processed_at" :> Str("p1"))
         @@ ("data" :> Map(("value" :> Float(5)) @@ ("count" :> Int_(2)) @@ ("location" :> Null)))
GoodA2 == ("id" :> Str("a")) @@ ("timestamp" :> Str("t1")) @@ ("processed_at" :> Str("p2"))
          @@ ("tags" :> List(("0" :> Int_(1)) @@ ("1" :> Str("x")))) @@ ("location" :> Null)
NoId == ("timestamp" :> Str("t1")) @@ ("data" :> Map("value" :> Float(5)))
NoTimestamp == ("id" :> Str("b")) @@ ("price" :> Int_(42))
EmptyId == ("id" :> Str("")) @@ ("timestamp" :> Str("t1"))
EmptyTimestamp == ("id" :> Str("b")) @@ ("timestamp" :> Str(""))
BoolField == ("id" :> Str("b")) @@ ("timestamp" :> Str("t1")) @@ ("active" :> Bool(TRUE))

MixedRecords == {GoodA, GoodA2, NoId, NoTimestamp, EmptyId, EmptyTimestamp, BoolField}
SeqsUpTo(S, n) == UNION {[1..k -> S] : k \in 0..n}
\* k failing records, alternately without timestamp and without id
Pad(k) == [i \in 1..k |-> IF i % 2 = 1 THEN NoTimestamp ELSE NoId]
LoadBatches == {head \o Pad(k) : head \in SeqsUpTo(MixedRecords, MaxMixed), k \in 0..MaxPad}

TKey == Key("transformed", 1)
AbsentKey == Key("transformed", 2)
EmptyBucket == <<>>

\* the record of an invocation: its inputs, the table before it, the handler's
\* error list, and whether it repeats the invocation before it (same blob, the
\* store failing at the same record, if at all)
NoLoad == [called |-> FALSE, event |-> LoadEvent("none", TKey), down |-> 0,
           archiveFails |-> FALSE, errors |-> <<>>, before |-> EmptyBag, repeat |-> FALSE]

\* the other subsystems at rest
EtlIdle ==
    /\ source = <<>>
    /\ clock = 0
    /\ extractOut = NoExtractResp
    /\ transformOut = NoTransformResp
NoBroadcast == [called |-> FALSE, room |-> "", scanned |-> {}, failPost |-> {},
                before |-> EmptyBag]
NoChatResp == [called |-> FALSE, route |-> "", statusCode |-> 0]
ChatIdle ==
    /\ connections = EmptyBag
    /\ messages = EmptyBag
    /\ attempts = EmptyBag
    /\ lastBroadcast = NoBroadcast
    /\ chatOut = NoChatResp
    /\ live = {}
NoOrderResp == [called |-> FALSE, raised |-> FALSE, statusCode |-> 0,
                processedOrders |-> 0, orders |-> <<>>, published |-> 0]
OrdersIdle ==
    /\ orders = EmptyBag
    /\ dispatched = <<>>
    /\ orderOut = NoOrderResp
NoApiResp == [called |-> FALSE, route |-> "", statusCode |-> 0, id |-> Null, fault |-> FALSE]
ApiIdle ==
    /\ items_table = EmptyBag
    /\ apiOut = NoApiResp
NoInventoryResp == [called |-> FALSE, raised |-> FALSE, statusCode |-> 0,
                    processedItems |-> 0, items |-> <<>>]
NoStreamResp == [called |-> FALSE, statusCode |-> 0, processedRecords |-> 0,
                 aggregatedMetrics |-> 0, processed |-> <<>>, archiveDown |-> 0,
                 metricFails |-> {}]
StreamIdle ==
    /\ stream = <<>>
    /\ metrics = EmptyBag
    /\ archive = {}
    /\ streamOut = NoStreamResp
ConcIdle ==
    /\ inventory = EmptyBag
    /\ inventoryOut = NoInventoryResp
    /\ running = [kind |-> "none"]

(***************************************************************************)
(* The loader on its own: one transformed blob is in the bucket and        *)
(* load.handler is invoked on it any number of times                       *)
(***************************************************************************)
Load(event, down, archiveFails) ==
    \E r \in {LoadHandler(event, staging, dest, down, archiveFails)} :
        /\ loadOut' = r.resp
        /\ dest' = r.table
        /\ staging' = r.bucket
        /\ lastLoad' = [called |-> TRUE, event |-> event, down |-> down,
                        archiveFails |-> archiveFails, errors |-> r.errors,
                        before |-> dest,
                        repeat |-> /\ lastLoad.called /\ ~loadOut.raised /\ ~r.resp.raised
                                   /\ lastLoad.event.key = event.key
                                   /\ lastLoad.down = down]
        /\ UNCHANGED <<source, clock, extractOut, transformOut, exceptEtl>>

Min(a, b) == IF a < b THEN a ELSE b
LoadOfStaged ==
    \E archiveFails \in BOOLEAN, down \in 0..Min(Len(staging[TKey]), MaxDown) :
        Load(LoadEvent("direct", TKey), down, archiveFails)
LoadWrapped == Load(LoadEvent("payload", TKey), 0, FALSE)
LoadOfAbsent == Load(LoadEvent("direct", AbsentKey), 0, FALSE)
LoadWithoutKey == Load(LoadEvent("none", TKey), 0, FALSE)

InitLoad ==
    /\ \E batch \in LoadBatches : staging = (TKey :> batch)
    /\ dest = EmptyBag
    /\ loadOut = NoLoadResp
    /\ lastLoad = NoLoad
    /\ EtlIdle /\ ChatIdle /\ OrdersIdle /\ ApiIdle /\ StreamIdle /\ ConcIdle
NextLoad == LoadOfStaged \/ LoadWrapped \/ LoadOfAbsent \/ LoadWithoutKey
SpecLoad == InitLoad /\ [][NextLoad]_vars

(***************************************************************************)
(* Properties of the loader                                                *)
(***************************************************************************)
LoadReturned == loadOut.called /\ ~loadOut.raised
LoadedBatch == staging[lastLoad.event.key]
Count(seq, P(_)) == Cardinality({i \in DOMAIN seq : P(seq[i])})

\* C1: whenever load.handler has read its blob and returned, recordsLoaded plus
\* errors equals the number of records of the blob: every record is counted
\* once, as loaded or as errored.
C1_AllRecordsCounted ==
    LoadReturned => loadOut.recordsLoaded + loadOut.errors = Len(LoadedBatch)
C1_Witness ==
    /\ LoadReturned
    /\ loadOut.recordsLoaded >= 1
    /\ \E i \in DOMAIN lastLoad.errors : lastLoad.errors[i].kind = "missing_id"
    /\ \E i \in DOMAIN lastLoad.errors : lastLoad.errors[i].kind = "conversion"

\* C3: a run of the loader that repeats the run before it on the same blob
\* leaves the destination table exactly as the first run left it.
C3_ReloadIdempotent == (LoadReturned /\ lastLoad.repeat) => dest = lastLoad.before
C3_Witness ==
    /\ LoadReturned /\ lastLoad.repeat
    /\ loadOut.recordsLoaded >= 2
    /\ BagCardinality(dest) >= 1

MissingOrEmpty(rec, f) == ~Has(rec, f) \/ rec[f] = Null \/ rec[f] = Str("")
Rejected(rec) == MissingOrEmpty(rec, "id") \/ MissingOrEmpty(rec, "timestamp")
AboutRejected(msg) ==
    \/ msg.kind \in {"missing_id", "missing_timestamp"}
    \/ msg.kind = "put_item" /\ Rejected(msg.rec)
\* C4: a record whose id or timestamp is missing or empty is never written, is
\* counted as one error (and listed while fewer than 5 are listed), leaves
\* recordsLoaded and the table as they are without it, does not stop the
\* records after it, and the response is still 200.
C4_RejectedCounted ==
    (LoadReturned /\ Len(LoadedBatch) > 0) =>
        LET batch == LoadedBatch
            nBad == Count(batch, Rejected)
            rest == SelectSeq(batch, LAMBDA r : ~Rejected(r))
            clean == LoadLoop([table |-> lastLoad.before, loaded |-> 0, errors |-> <<>>],
                              rest, 1, 0)
        IN  /\ loadOut.statusCode = 200
            /\ \A x \in BagToSet(dest) : ~Rejected(x)
            /\ loadOut.errors >= nBad
            /\ loadOut.recordsLoaded + loadOut.errors = Len(batch)
            /\ lastLoad.down = 0 =>
                   /\ loadOut.recordsLoaded = clean.loaded
                   /\ loadOut.errors = Len(clean.errors) + nBad
                   /\ dest = clean.table
            /\ loadOut.errors <= MaxErrorDetails =>
                   Count(loadOut.errorDetails, AboutRejected) = nBad
C4_Witness ==
    /\ LoadReturned
    /\ Len(LoadedBatch) >= 2
    /\ Rejected(LoadedBatch[1])
    /\ LoadedBatch[1] \in {EmptyId, EmptyTimestamp}
    /\ loadOut.recordsLoaded >= 1
    /\ loadOut.errors = 1

IsAbout(msg, rec) ==
    \/ msg.kind = "missing_id" /\ msg.rec = rec
    \/ msg.kind = "missing_timestamp" /\ Has(rec, "id") /\ ~Has(rec, "timestamp")
       /\ msg.id = rec["id"]
    \/ msg.kind \in {"conversion", "put_item"} /\ msg.rec = rec
\* the messages from j on are about records from i on, in the same order
RECURSIVE InRecordOrder(_, _, _, _)
InRecordOrder(msgs, j, batch, i) ==
    IF j > Len(msgs) THEN TRUE
    ELSE IF i > Len(batch) THEN FALSE
    ELSE IF IsAbout(msgs[j], batch[i]) THEN InRecordOrder(msgs, j + 1, batch, i + 1)
    ELSE InRecordOrder(msgs, j, batch, i + 1)
\* C5: errorDetails never holds more than 5 messages, errors is the full number
\* of failed records, and errorDetails is the first min(5, errors) messages in
\* record order.
C5_ErrorDetailsBounded ==
    LoadReturned =>
        /\ Len(loadOut.errorDetails) <= 5
        /\ loadOut.errors = Len(lastLoad.errors)
        /\ loadOut.errors = Len(LoadedBatch) - loadOut.recordsLoaded
        /\ Len(loadOut.errorDetails) = Min(5, loadOut.errors)
        /\ \A j \in DOMAIN loadOut.errorDetails : loadOut.errorDetails[j] = lastLoad.errors[j]
        /\ InRecordOrder(lastLoad.errors, 1, LoadedBatch, 1)
C5_Witness ==
    /\ LoadReturned
    /\ loadOut.errors >= 6
    /\ Len(loadOut.errorDetails) = 5
    /\ loadOut.recordsLoaded >= 1
    /\ ~Rejected(LoadedBatch[2])

(***************************************************************************)
(* The pipeline: the source table holds some items, or a client has put a  *)
(* blob of JSON records under extracted/; the state machine chains         *)
(* extract, transform and load by the keys the handlers return             *)
(***************************************************************************)
MaxSource == 2      \* most items in the source table
MaxUpload == 2      \* most records in an uploaded staging blob
MaxClock == 2       \* last clock tick at which an execution starts

IdNames == <<"r1", "r2", "r3", "r4">>
Frac(n, d) == [t |-> "dec", n |-> n, d |-> d, s |-> "", m |-> NoMembers]
\* what an item of the source table holds besides its id; numbers are Decimals
SourcePayloads ==
    { ("timestamp" :> TimeStr(0)) @@ ("total_value" :> Dec(100)) @@ ("count" :> Dec(4)),
      ("timestamp" :> TimeStr(0)) @@ ("total_value" :> Dec(7)) @@ ("count" :> Dec(2))
          @@ ("price" :> Dec(42)) @@ ("location" :> Str("building-A")),
      ("total_value" :> Dec(100)) @@ ("count" :> Dec(-2)) @@ ("value" :> Dec(5)),
      ("timestamp" :> TimeStr(1)) @@ ("total_value" :> Frac(5, 2)) @@ ("count" :> Frac(5, 2)),
      ("timestamp" :> TimeStr(-5)) @@ ("value" :> Dec(5)),
      ("timestamp" :> Str("garbage")) @@ ("price" :> Dec(42)),
      ("timestamp" :> TimeStr(0)) @@ ("reading" :> Map("N" :> Str("n/a"))) }
SourceItems == {("id" :> Str(IdNames[i])) @@ p : i \in 1..MaxSource, p \in SourcePayloads}
\* the scan returns the items in any order; the id is the partition key
Sources ==
    {items \in SeqsUpTo(SourceItems, MaxSource) :
        \A i, j \in DOMAIN items : i # j => items[i]["id"] # items[j]["id"]}

\* JSON records a client stages directly
JsonRecords ==
    { ("id" :> Str("r1")) @@ ("timestamp" :> TimeStr(0)) @@ ("total_value" :> Int_(100))
          @@ ("count" :> Int_(4)),
      ("id" :> Str("r2")) @@ ("total_value" :> Int_(100)) @@ ("count" :> Int_(-2))
          @@ ("price" :> Int_(42)),
      ("id" :> Str("r2")) @@ ("total_value" :> Int_(10)) @@ ("count" :> Ratio(5, 2)),
      ("id" :> Map("S" :> Str("r1"))) @@ ("total_value" :> Map("N" :> DigitStr(100)))
          @@ ("count" :> Map("N" :> DigitStr(4))),
      ("partition_key" :> Str("r3")) @@ ("value" :> Map("N" :> Str("abc"))),
      ("id" :> Str("r1")) @@ ("total_value" :> Int_(100)) @@ ("count" :> Str("x"))
          @@ ("value" :> Null),
      ("id" :> Str("r1")) @@ ("total_value" :> Int_(100)) @@ ("count" :> Int_(0))
          @@ ("active" :> Bool(FALSE)),
      ("id" :> Str("r2")) @@ ("total_value" :> Int_(100)) @@ ("count" :> Map("N" :> Str("abc"))),
      ("id" :> Str("r2")) @@ ("total_value" :> Int_(100)) @@ ("count" :> Int_(4))
          @@ ("average" :> Str("n/a")) }
UploadedBlobs == SeqsUpTo(JsonRecords, MaxUpload)
UKey == Key("extracted", 0)
AbsentStagingKey == Key("extracted", -1)

Extract(putFails) ==
    \E r \in {ExtractHandler(source, staging, clock, putFails)} :
        /\ extractOut' = r.resp
        /\ staging' = r.bucket
        /\ UNCHANGED <<source, dest, clock, transformOut, loadOut, lastLoad,
                       exceptEtl>>
\* the execution starts with extract unless a client has staged a blob itself
ExtractStep ==
    /\ ~extractOut.called /\ UKey \notin DOMAIN staging
    /\ \E putFails \in BOOLEAN : Extract(putFails)

Transform(event, putFails) ==
    \E r \in {TransformHandler(event, staging, clock, putFails)} :
        /\ transformOut' = r.resp
        /\ staging' = r.bucket
        /\ UNCHANGED <<source, dest, clock, extractOut, loadOut, lastLoad,
                       exceptEtl>>
\* the state machine passes extract's response on; a client names the key it staged
TransformReady ==
    /\ ~transformOut.called
    /\ (extractOut.called /\ ~extractOut.raised) \/ UKey \in DOMAIN staging
StagedKey == IF UKey \in DOMAIN staging THEN UKey ELSE extractOut.stagingKey
TransformOfStaged ==
    /\ TransformReady
    /\ \E shape \in {"direct", "payload"}, putFails \in BOOLEAN :
        Transform(LoadEvent(shape, StagedKey), putFails)
TransformOfAbsent ==
    /\ TransformReady
    /\ Transform(LoadEvent("direct", AbsentStagingKey), FALSE)
TransformWithoutKey ==
    /\ TransformReady
    /\ Transform(LoadEvent("none", AbsentStagingKey), FALSE)

\* the state machine passes transform's response on
LoadOfTransformed ==
    /\ transformOut.called /\ ~transformOut.raised /\ ~loadOut.called
    /\ \E archiveFails \in BOOLEAN :
        \E down \in 0..(IF transformOut.transformedKey \in DOMAIN staging
                        THEN Min(Len(staging[transformOut.transformedKey]), MaxDown)
                        ELSE 0) :
            Load(LoadEvent("direct", transformOut.transformedKey), down, archiveFails)

InitPipe ==
    /\ \/ source \in Sources /\ staging = EmptyBucket
       \/ source = <<>> /\ \E blob \in UploadedBlobs : staging = (UKey :> blob)
    /\ dest = EmptyBag
    /\ clock \in 1..MaxClock
    /\ extractOut = NoExtractResp
    /\ transformOut = NoTransformResp
    /\ loadOut = NoLoadResp
    /\ lastLoad = NoLoad
    /\ ChatIdle /\ OrdersIdle /\ ApiIdle /\ StreamIdle /\ ConcIdle
NextPipe ==
    \/ ExtractStep
    \/ TransformOfStaged
    \/ TransformOfAbsent
    \/ TransformWithoutKey
    \/ LoadOfTransformed
SpecPipe == InitPipe /\ [][NextPipe]_vars

(***************************************************************************)
(* Properties of the pipeline                                              *)
(***************************************************************************)
TransformReturned == transformOut.called /\ ~transformOut.raised
TransformInput == staging[transformOut.originalKey]
TransformOutput == staging[transformOut.transformedKey]
TransformWrote == TransformReturned /\ Len(TransformInput) > 0

\* C2: when extract stages an empty batch, transform answers 200 with
\* recordsTransformed 0 and load, given the key transform returned, answers 200
\* with recordsLoaded 0 instead of raising.
C2_EmptyBatchLoads ==
    ( /\ extractOut.called /\ ~extractOut.raised /\ extractOut.recordsExtracted = 0
      /\ transformOut.called /\ transformOut.originalKey = extractOut.stagingKey
      /\ loadOut.called /\ lastLoad.event.key = transformOut.transformedKey )
    => /\ transformOut.statusCode = 200 /\ transformOut.recordsTransformed = 0
       /\ ~loadOut.raised /\ loadOut.statusCode = 200 /\ loadOut.recordsLoaded = 0

\* the number a value stands for, read off the value itself
Bare(v) ==
    CASE v.t = "map" /\ "S" \in DOMAIN v.m -> v.m["S"]
      [] v.t = "map" /\ "N" \in DOMAIN v.m -> v.m["N"]
      [] OTHER -> v
IsNumeric(v) == v.t \in {"int", "float"} \/ (v.t = "str" /\ v.s \in {"#", "#.0"})
IsWholeConvertible(v) == v.t \in {"int", "float"} \/ (v.t = "str" /\ v.s = "#" /\ v.d = 1)
WholePart(v) == IF v.n >= 0 THEN v.n \div v.d ELSE -((-v.n) \div v.d)
BadTaggedNumber(v) ==
    v.t = "map" /\ "S" \notin DOMAIN v.m /\ "N" \in DOMAIN v.m /\ ~IsNumeric(v.m["N"])
HasTotals(rec) == Has(rec, "total_value") /\ Has(rec, "count")
OutputsOf(i) == {j \in DOMAIN TransformOutput : transformOut.origin[j] = i}
SameNumber(a, b) == a.n * b.d = b.n * a.d

\* C6 as stated: a record with a total_value and a count convertible to numbers
\* and a non-zero count is emitted with data.average = total_value / count;
\* with a zero divisor or an unconvertible value it is emitted without average.
C6_AverageForNonZeroCount ==
    TransformWrote =>
        \A i \in DOMAIN TransformInput :
            LET rec == TransformInput[i]
                tv == Bare(rec["total_value"])
                c == Bare(rec["count"])
            IN  HasTotals(rec) =>
                    \E j \in OutputsOf(i) :
                        LET data == TransformOutput[j]["data"].m
                        IN  IF IsNumeric(tv) /\ IsNumeric(c) /\ c.n # 0
                            THEN /\ "average" \in DOMAIN data
                                 /\ IsNumber(data["average"])
                                 /\ data["average"].n * tv.d * c.n
                                        = data["average"].d * tv.n * c.d
                            ELSE "average" \notin DOMAIN data

\* C6 amended: the average is total_value / int(count) and is computed only
\* when int(count) is positive; a record with an unconvertible type-tagged
\* number is dropped whole; a field named average of the record itself is
\* copied over the computed one.
C6_AverageForPositiveCount ==
    TransformWrote =>
        \A i \in DOMAIN TransformInput :
            LET rec == TransformInput[i]
                tv == Bare(rec["total_value"])
                c == Bare(rec["count"])
            IN  HasTotals(rec) =>
                    IF \E f \in DOMAIN rec : BadTaggedNumber(rec[f])
                    THEN OutputsOf(i) = {}
                    ELSE /\ Cardinality(OutputsOf(i)) = 1
                         /\ \A j \in OutputsOf(i) :
                              LET data == TransformOutput[j]["data"].m
                              IN  IF Has(rec, "average")
                                  THEN data["average"] = rec["average"]
                                  ELSE IF IsNumeric(tv) /\ IsWholeConvertible(c)
                                          /\ WholePart(c) > 0
                                  THEN /\ "average" \in DOMAIN data
                                       /\ data["average"].t = "float"
                                       /\ data["average"].d > 0
                                       /\ data["average"].n * tv.d * WholePart(c)
                                              = data["average"].d * tv.n
                                  ELSE "average" \notin DOMAIN data
C6_Witness ==
    /\ TransformWrote
    /\ \E j \in DOMAIN TransformOutput :
        LET rec == TransformInput[transformOut.origin[j]]
        IN  /\ HasTotals(rec)
            /\ rec["total_value"] = Int_(100) /\ rec["count"] = Int_(4)
            /\ ~Has(rec, "average")
            /\ TransformOutput[j]["data"].m["average"] = Float(25)
    /\ \E j \in DOMAIN TransformOutput :
        LET rec == TransformInput[transformOut.origin[j]]
        IN  /\ HasTotals(rec) /\ rec["count"] = Int_(0)
            /\ "average" \notin DOMAIN TransformOutput[j]["data"].m

\* a scalar keeps its value and its kind: a number stays a number
IsScalar(v) == v.t \notin {"map", "list"}
SameScalar(a, b) ==
    IF IsNumber(a) THEN IsNumber(b) /\ SameNumber(a, b) ELSE a = b
\* where a source field is looked for in a transformed record
Carried(out, f) ==
    IF f \in {"id", "timestamp"} THEN out[f]
    ELSE IF f \in DOMAIN out["data"].m THEN out["data"].m[f]
    ELSE Null
IsCarried(out, f) == f \in {"id", "timestamp"} \/ f \in DOMAIN out["data"].m
\* C7: every scalar field of a record staged by extract and transformed by
\* transform has, in the transformed record, the value and the type it has in
\* the source record, and no source field is lost.
C7_RoundTripKeepsScalars ==
    ( /\ extractOut.called /\ ~extractOut.raised
      /\ TransformWrote /\ transformOut.originalKey = extractOut.stagingKey )
    => \A j \in DOMAIN TransformOutput :
         \A i \in DOMAIN source :
            source[i]["id"] = TransformOutput[j]["id"] =>
                \A f \in DOMAIN source[i] :
                    IsScalar(source[i][f]) =>
                        /\ IsCarried(TransformOutput[j], f)
                        /\ SameScalar(source[i][f], Carried(TransformOutput[j], f))

(***************************************************************************)
(* The websocket chat: connect.handler, disconnect.handler and the default *)
(* route handler with broadcast_message                                    *)
(***************************************************************************)
MaxConns == 3       \* connection ids in use
MaxSenders == 1     \* connection ids that send on the default route
ConnectionTtl == 1  \* 86400 seconds, in clock ticks of one day
MessageTtl == 7     \* 86400 * 7 seconds, in clock ticks of one day

ConnNames == <<"c1", "c2", "c3", "c4", "c5", "c6">>
Conns == {ConnNames[i] : i \in 1..MaxConns}
Senders == {ConnNames[i] : i \in 1..MaxSenders}
Rooms == {"default", "lobby"}

\* what the stack grants each function on the connections table
ConnectionGrants(fn) ==
    CASE fn = "connect" -> {"read", "write"}
      [] fn = "disconnect" -> {"read", "write"}
      [] fn = "default" -> {"read"}
      [] OTHER -> {}

ConnectionIds(table) == {x.connection_id : x \in BagToSet(table)}
ConnectionOf(table, id) == CHOOSE x \in BagToSet(table) : x.connection_id = id
\* table.put_item on websocket-connections (key: connection_id)
PutConnection(table, item) ==
    LET others == {x \in BagToSet(table) : x.connection_id # item.connection_id}
    IN  [x \in others \cup {item} |-> IF x = item THEN 1 ELSE table[x]]
\* a delete that answers without removing anything
DeleteConnectionKept(fn, table, id) == [ok |-> TRUE, table |-> table]
\* table.delete_item by function fn: [ok, table]; refused without write access
DeleteConnection(fn, table, id) ==
    IF "write" \notin ConnectionGrants(fn) THEN [ok |-> FALSE, table |-> table]
    ELSE [ok |-> TRUE,
          table |-> LET rest == {x \in BagToSet(table) : x.connection_id # id}
                    IN  [x \in rest |-> table[x]]]
\* table.scan with FilterExpression room = :room
ScanRoom(table, room) == {x.connection_id : x \in {y \in BagToSet(table) : y.room = room}}
\* the orders in which a scan may return a set of items
Orders(S) == {f \in [1..Cardinality(S) -> S] : \A i, j \in DOMAIN f : i # j => f[i] # f[j]}

\* a put_item that stores nothing
PutMessageDropped(table, item) == table
\* table.put_item on websocket-messages (key: room, timestamp)
PutMessage(table, item) ==
    LET others == {x \in BagToSet(table) :
                      <<x.room, x.timestamp>> # <<item.room, item.timestamp>>}
    IN  [x \in others \cup {item} |-> IF x = item THEN 1 ELSE table[x]]

\* one iteration of the loop of broadcast_message; st = [table, attempts]
BroadcastOne(st, id, postFails) ==
    [table |-> IF postFails THEN DeleteConnection("default", st.table, id).table ELSE st.table,
     attempts |-> st.attempts (+) SetToBag({id})]
\* a loop that a failed delivery ends
RECURSIVE BroadcastLoopAbort(_, _, _, _)
BroadcastLoopAbort(st, order, i, failPost) ==
    IF i > Len(order) THEN st
    ELSE IF order[i] \in failPost THEN BroadcastOne(st, order[i], TRUE)
    ELSE BroadcastLoopAbort(BroadcastOne(st, order[i], FALSE), order, i + 1, failPost)
\* the loop over the scanned connections from position i on
RECURSIVE BroadcastLoop(_, _, _, _)
BroadcastLoop(st, order, i, failPost) ==
    IF i > Len(order) THEN st
    ELSE BroadcastLoop(BroadcastOne(st, order[i], order[i] \in failPost), order, i + 1,
                       failPost)
\* broadcast_message: result [table, attempts]; a failing scan is swallowed
BroadcastMessage(table, order, failPost, scanFails) ==
    IF scanFails THEN [table |-> table, attempts |-> EmptyBag]
    ELSE BroadcastLoop([table |-> table, attempts |-> EmptyBag], order, 1, failPost)

ChatResp(route, code) == [called |-> TRUE, route |-> route, statusCode |-> code]
BodyField(body, f, default) == IF f \in DOMAIN body THEN body[f] ELSE default
MessageItem(id, conn, body, now) ==
    [message_id |-> <<id, now>>, room |-> BodyField(body, "room", "default"),
     timestamp |-> now, user_id |-> conn.user_id, connection_id |-> id,
     message |-> BodyField(body, "message", ""), type |-> BodyField(body, "type", "message"),
     ttl |-> now + MessageTtl]
\* the whole default handler: result [resp, table, msgs, attempts, broadcast]
DefaultHandler(id, body, table, msgs, now, order, failPost, scanFails, putFails) ==
    LET quiet == [table |-> table, msgs |-> msgs, attempts |-> EmptyBag,
                  broadcast |-> NoBroadcast]
    IN  IF "malformed" \in DOMAIN body THEN quiet @@ [resp |-> ChatResp("default", 500)]
        ELSE IF id \notin ConnectionIds(table) THEN quiet @@ [resp |-> ChatResp("default", 404)]
        ELSE IF putFails THEN quiet @@ [resp |-> ChatResp("default", 500)]
        ELSE LET stored == PutMessage(msgs, MessageItem(id, ConnectionOf(table, id), body, now))
                 room == BodyField(body, "room", "default")
             IN  IF BodyField(body, "type", "message") # "message"
                 THEN [quiet EXCEPT !.msgs = stored] @@ [resp |-> ChatResp("default", 200)]
                 ELSE LET b == BroadcastMessage(table, order, failPost, scanFails)
                      IN  [resp |-> ChatResp("default", 200), table |-> b.table,
                           msgs |-> stored, attempts |-> b.attempts,
                           broadcast |-> [called |-> TRUE, room |-> room,
                                          scanned |-> IF scanFails THEN {}
                                                      ELSE {order[i] : i \in DOMAIN order},
                                          failPost |-> failPost, before |-> table]]

\* the whole connect handler: result [resp, table, attempts]
ConnectHandler(id, room, user, table, now, putFails, welcomeFails) ==
    IF putFails THEN [resp |-> ChatResp("connect", 500), table |-> table, attempts |-> EmptyBag]
    ELSE [resp |-> ChatResp("connect", 200),
          table |-> PutConnection(table, [connection_id |-> id, connected_at |-> now,
                                          room |-> room, user_id |-> user,
                                          ttl |-> now + ConnectionTtl]),
          attempts |-> SetToBag({id})]
\* the whole disconnect handler: result [resp, table]
DisconnectHandler(id, table, deleteFails) ==
    LET r == DeleteConnection("disconnect", table, id)
    IN  IF deleteFails \/ ~r.ok THEN [resp |-> ChatResp("disconnect", 500), table |-> table]
        ELSE [resp |-> ChatResp("disconnect", 200), table |-> r.table]

Connect(id, room, user, putFails, welcomeFails) ==
    \E r \in {ConnectHandler(id, room, user, connections, clock, putFails, welcomeFails)} :
        /\ connections' = r.table
        /\ attempts' = r.attempts
        /\ chatOut' = r.resp
        /\ lastBroadcast' = NoBroadcast
        /\ live' = IF r.resp.statusCode = 200 THEN live \cup {id} ELSE live
        /\ UNCHANGED <<messages, exceptChat>>
ConnectStep ==
    \E id \in Conns, room \in Rooms, putFails \in BOOLEAN, welcomeFails \in BOOLEAN :
        Connect(id, room, "anonymous", putFails, welcomeFails)

Disconnect(id, deleteFails) ==
    \E r \in {DisconnectHandler(id, connections, deleteFails)} :
        /\ connections' = r.table
        /\ attempts' = EmptyBag
        /\ chatOut' = r.resp
        /\ lastBroadcast' = NoBroadcast
        /\ live' = IF r.resp.statusCode = 200 THEN live \ {id} ELSE live
        /\ UNCHANGED <<messages, exceptChat>>
DisconnectStep == \E id \in Conns, deleteFails \in BOOLEAN : Disconnect(id, deleteFails)

Send(id, body, order, failPost, scanFails, putFails) ==
    \E r \in {DefaultHandler(id, body, connections, messages, clock, order, failPost,
                             scanFails, putFails)} :
        /\ connections' = r.table
        /\ messages' = r.msgs
        /\ attempts' = r.attempts
        /\ chatOut' = r.resp
        /\ lastBroadcast' = r.broadcast
        /\ live' = live \ {x \in r.broadcast.failPost \cap r.broadcast.scanned :
                              DeleteConnection("default", connections, x).ok}
        /\ UNCHANGED exceptChat
Bodies ==
    {("type" :> "message") @@ ("room" :> room) : room \in Rooms}
        \cup {"message" :> "hi", ("type" :> "ping") @@ ("room" :> "lobby")}
SendMessage ==
    \E id \in Senders, body \in Bodies :
        LET room == BodyField(body, "room", "default")
        IN  \E order \in Orders(ScanRoom(connections, room)) :
                \E failPost \in SUBSET ScanRoom(connections, room) :
                    Send(id, body, order, failPost, FALSE, FALSE)
SendUnderFailure ==
    \E id \in Senders, scanFails \in BOOLEAN :
        \E order \in Orders(ScanRoom(connections, "default")) :
            Send(id, "message" :> "hi", order, {}, scanFails, ~scanFails)
SendMalformed == \E id \in Senders : Send(id, "malformed" :> "{", <<>>, {}, FALSE, FALSE)

InitChat ==
    /\ ChatIdle
    /\ source = <<>> /\ staging = EmptyBucket /\ dest = EmptyBag /\ clock = 1
    /\ extractOut = NoExtractResp /\ transformOut = NoTransformResp
    /\ loadOut = NoLoadResp /\ lastLoad = NoLoad
    /\ OrdersIdle /\ ApiIdle /\ StreamIdle /\ ConcIdle
NextChat == ConnectStep \/ DisconnectStep \/ SendMessage \/ SendUnderFailure \/ SendMalformed
SpecChat == InitChat /\ [][NextChat]_vars
(***************************************************************************)
(* Properties of the broadcast                                             *)
(***************************************************************************)
Broadcasted == chatOut.called /\ chatOut.route = "default" /\ lastBroadcast.called
FailedDeliveries == lastBroadcast.failPost \cap lastBroadcast.scanned

\* C8: after the default handler has broadcast, no connection whose delivery
\* failed is in the connections table any more, and every other connection
\* that was in the table before the broadcast still is.
C8_FailedConnectionsRemoved ==
    Broadcasted =>
        /\ ConnectionIds(connections) \cap FailedDeliveries = {}
        /\ ConnectionIds(lastBroadcast.before) \ FailedDeliveries
              \subseteq ConnectionIds(connections)
\* C9: the default handler that broadcasts attempts exactly one delivery to
\* every connection its scan returned, whichever deliveries fail and whether or
\* not the failed connections could be deleted, and answers 200.
C9_OneAttemptEach ==
    Broadcasted =>
        /\ chatOut.statusCode = 200
        /\ BagToSet(attempts) = lastBroadcast.scanned
        /\ \A id \in lastBroadcast.scanned : CopiesIn(id, attempts) = 1
C9_Witness ==
    /\ Broadcasted
    /\ Cardinality(lastBroadcast.scanned) = 3
    /\ Cardinality(FailedDeliveries) >= 1
    /\ FailedDeliveries # lastBroadcast.scanned
    /\ FailedDeliveries \subseteq ConnectionIds(connections)
(***************************************************************************)
(* The order dispatcher: order_processor.handler on the orders table       *)
(***************************************************************************)
MaxOrders == 2    \* order identifiers in use
MaxRecords == 2   \* entries of a Records list

OrderNames == <<"ORD-001", "ORD-002", "ORD-003", "ORD-004">>
OrderIds == {OrderNames[i] : i \in 1..MaxOrders}
IndexNames == <<"0", "1", "2", "3", "4", "5">>
ListOf(seq) == List([k \in {IndexNames[i] : i \in DOMAIN seq} |->
                        seq[CHOOSE i \in DOMAIN seq : IndexNames[i] = k]])
Items(list) == [i \in 1..Cardinality(DOMAIN list.m) |-> list.m[IndexNames[i]]]

\* a string holding the JSON text of v, and a string that is no JSON text
JsonText(v) == [t |-> "str", n |-> 0, d |-> 1, s |-> "json", m |-> ("0" :> v)]
NotJson == Str("{not json")
JsonLoadsRaises(v) == ~(v.t = "str" /\ v.s = "json")
JsonLoads(v) == v.m["0"]

\* boto3 refuses a float anywhere in an item
RECURSIVE HasFloat(_)
HasFloat(v) ==
    \/ v.t = "float"
    \/ v.t \in {"map", "list"} /\ \E k \in DOMAIN v.m : HasFloat(v.m[k])
\* the orders table accepts an item whose key order_id is a non-empty string
OrderKeyOk(order_id) == order_id.t = "str" /\ order_id # Str("")
OrderItemOk(item) == OrderKeyOk(item["order_id"]) /\ \A f \in DOMAIN item : ~HasFloat(item[f])
OrdersWith(table, id) == {x \in BagToSet(table) : x["order_id"] = id}
\* orders_table.put_item (key: order_id)
PutOrder(table, item) ==
    LET others == BagToSet(table) \ OrdersWith(table, item["order_id"])
    IN  [x \in others \cup {item} |-> IF x = item THEN 1 ELSE table[x]]
\* an update that adds a record of its own beside the stored one
UpdateStatusAppend(table, id, status) ==
    table (+) SetToBag({("order_id" :> id) @@ ("status" :> status)})
\* an update that writes the whole item anew
UpdateStatusReplace(table, id, status) ==
    PutOrder(table, ("order_id" :> id) @@ ("status" :> status))
\* orders_table.update_item SET status: changes the stored item, or creates it
UpdateStatus(table, id, status) ==
    IF OrdersWith(table, id) = {}
    THEN PutOrder(table, ("order_id" :> id) @@ ("status" :> status))
    ELSE LET old == CHOOSE x \in OrdersWith(table, id) : TRUE
         IN  PutOrder(table, [old EXCEPT !["status"] = status])

\* lines 23-33: the events of an invocation; a body that is no JSON raises
RecordRaises(record) == Has(record.m, "body") /\ JsonLoadsRaises(record.m["body"])
RecordEvent(record) == IF Has(record.m, "body") THEN JsonLoads(record.m["body"]) ELSE record
NormalizeRaises(event) ==
    /\ Has(event.m, "Records")
    /\ \E i \in DOMAIN Items(event.m["Records"]) : RecordRaises(Items(event.m["Records"])[i])
EventsToProcess(event) ==
    IF Has(event.m, "Records")
    THEN [i \in DOMAIN Items(event.m["Records"]) |-> RecordEvent(Items(event.m["Records"])[i])]
    ELSE <<event>>

Truthy(v) ==
    CASE v.t = "str" -> v # Str("")
      [] v.t \in {"int", "float", "dec", "bool"} -> v.n # 0
      [] v.t = "null" -> FALSE
      [] OTHER -> DOMAIN v.m # {}
NoDispatch == [created |-> FALSE, last |-> "none", handled |-> {}]
Seen(seen, id) == IF id \in DOMAIN seen THEN seen[id] ELSE NoDispatch
OrderItem(order_id, data) ==
    ("order_id" :> order_id) @@ ("status" :> Str("processing"))
        @@ ("customer_id" :> Get(data.m, "customerId", Str("")))
        @@ ("items" :> Get(data.m, "items", List(NoMembers)))
        @@ ("total" :> Get(data.m, "total", Int_(0)))
        @@ ("created_at" :> Get(data.m, "createdAt", Str("")))
\* lines 36-129, one event; st = [table, processed, published, seen]
ProcessEvent(st, event_data, storeFails, publishFails) ==
    IF event_data.t # "map" THEN st
    ELSE LET raw == Get(event_data.m, "detail", Map(NoMembers))
         IN  IF raw.t = "str" /\ JsonLoadsRaises(raw) THEN st
             ELSE LET detail == IF raw.t = "str" THEN JsonLoads(raw) ELSE raw
                  IN  IF detail.t # "map" THEN st
                      ELSE LET event_type == Get(detail.m, "eventType", Str(""))
                               order_data == Get(detail.m, "data", Map(NoMembers))
                           IN  IF event_type \notin {Str("order.created"), Str("order.completed")}
                                  \/ order_data.t # "map"
                               THEN st
                               ELSE LET order_id == Get(order_data.m, "orderId", Str(""))
                                        item == OrderItem(order_id, order_data)
                                        ok == /\ ~storeFails
                                              /\ IF event_type = Str("order.created")
                                                 THEN OrderItemOk(item)
                                                 ELSE OrderKeyOk(order_id)
                                        was == Seen(st.seen, order_id)
                                    IN  IF ~Truthy(order_id) THEN st
                                        ELSE IF ~ok
                                        THEN [st EXCEPT !.seen = (order_id :> [was EXCEPT
                                                  !.created = @ \/ event_type = Str("order.created")])
                                                  @@ @]
                                        ELSE [table |-> IF event_type = Str("order.created")
                                                        THEN PutOrder(st.table, item)
                                                        ELSE UpdateStatus(st.table, order_id,
                                                                          Str("completed")),
                                              processed |-> Append(st.processed, order_id),
                                              published |-> st.published
                                                            + (IF publishFails THEN 0 ELSE 1),
                                              seen |-> (order_id :>
                                                  [created |-> was.created
                                                               \/ event_type = Str("order.created"),
                                                   last |-> event_type.s,
                                                   handled |-> was.handled \cup {detail}])
                                                  @@ st.seen]
RECURSIVE ProcessLoop(_, _, _, _, _)
ProcessLoop(st, events, i, storeFails, publishFails) ==
    IF i > Len(events) THEN st
    ELSE ProcessLoop(ProcessEvent(st, events[i], storeFails, publishFails), events, i + 1,
                     storeFails, publishFails)
OrderRaised == [NoOrderResp EXCEPT !.called = TRUE, !.raised = TRUE]
\* the whole handler: result [resp, table, seen]
OrderHandler(event, table, seen, storeFails, publishFails) ==
    IF NormalizeRaises(event) THEN [resp |-> OrderRaised, table |-> table, seen |-> seen]
    ELSE LET st == ProcessLoop([table |-> table, processed |-> <<>>, published |-> 0,
                                seen |-> seen],
                               EventsToProcess(event), 1, storeFails, publishFails)
         IN  [resp |-> [called |-> TRUE, raised |-> FALSE, statusCode |-> 200,
                        processedOrders |-> Len(st.processed), orders |-> st.processed,
                        published |-> st.published],
              table |-> st.table, seen |-> st.seen]

\* the events sent to the dispatcher
Detail(type, data) == Map(("eventType" :> Str(type)) @@ ("data" :> Map(data)))
Envelope(detail) == Map("detail" :> detail)
WholeOrder(id) ==
    ("orderId" :> Str(id)) @@ ("customerId" :> Str("CUST-001")) @@ ("total" :> Int_(110))
        @@ ("items" :> ListOf(<<Map(("productId" :> Str("PROD-001")) @@ ("quantity" :> Int_(2)))>>))
        @@ ("createdAt" :> Str("2024-01-01T00:00:00Z"))
\* the order of the integration test: prices and total are floats
PricedOrder(id) ==
    ("orderId" :> Str(id)) @@ ("customerId" :> Str("CUST-001")) @@ ("total" :> Ratio(10997, 100))
        @@ ("items" :> ListOf(<<Map(("productId" :> Str("PROD-001")) @@ ("quantity" :> Int_(2))
                                    @@ ("price" :> Ratio(2999, 100)))>>))
        @@ ("createdAt" :> Str("2024-01-01T00:00:00Z"))
Completion(id) == ("orderId" :> Str(id)) @@ ("completedAt" :> Str("2024-01-02T00:00:00Z"))
OrderDetails ==
    UNION {{Detail("order.created", WholeOrder(id)), Detail("order.created", PricedOrder(id)),
            Detail("order.completed", Completion(id)), Detail("order.cancelled", Completion(id))}
           : id \in OrderIds}
        \cup {Detail("order.created", "customerId" :> Str("CUST-001")),
              Detail("order.completed", "orderId" :> Int_(7))}
FirstOrder == OrderNames[1]
RecordEntries ==
    {Map("body" :> JsonText(Envelope(Detail("order.created", WholeOrder(FirstOrder))))),
     Map("body" :> JsonText(Envelope(Detail("order.completed", Completion(FirstOrder))))),
     Envelope(JsonText(Detail("order.completed", Completion(FirstOrder)))),
     Map("body" :> NotJson)}

Dispatch(event, storeFails, publishFails) ==
    \E r \in {OrderHandler(event, orders, dispatched, storeFails, publishFails)} :
        /\ orders' = r.table
        /\ dispatched' = r.seen
        /\ orderOut' = r.resp
        /\ UNCHANGED exceptOrders
DispatchBare ==
    \E detail \in OrderDetails, storeFails \in BOOLEAN, publishFails \in BOOLEAN :
        Dispatch(Envelope(detail), storeFails, publishFails)
DispatchEncoded ==
    \E detail \in OrderDetails \cup {NotJson} :
        Dispatch(Envelope(IF detail = NotJson THEN detail ELSE JsonText(detail)), FALSE, FALSE)
DispatchRecords ==
    \E entries \in SeqsUpTo(RecordEntries, MaxRecords) :
        Dispatch(Map("Records" :> ListOf(entries)), FALSE, FALSE)

InitOrders ==
    /\ OrdersIdle
    /\ source = <<>> /\ staging = EmptyBucket /\ dest = EmptyBag /\ clock = 0
    /\ extractOut = NoExtractResp /\ transformOut = NoTransformResp
    /\ loadOut = NoLoadResp /\ lastLoad = NoLoad
    /\ ChatIdle /\ ApiIdle /\ StreamIdle /\ ConcIdle
NextOrders == DispatchBare \/ DispatchEncoded \/ DispatchRecords
SpecOrders == InitOrders /\ [][NextOrders]_vars

(***************************************************************************)
(* Properties of the order dispatcher                                      *)
(***************************************************************************)
CreatedThenCompleted(id) ==
    Seen(dispatched, Str(id)).created /\ Seen(dispatched, Str(id)).last = "order.completed"
Records(id) == OrdersWith(orders, Str(id))

\* C10: once an order.created event and, as the last event the handler has
\* processed for that identifier, an order.completed event have been
\* dispatched, the orders table holds exactly one record for the identifier
\* and its status is "completed".
C10_CreatedThenCompleted ==
    \A id \in OrderIds :
        CreatedThenCompleted(id) =>
            /\ Cardinality(Records(id)) = 1
            /\ \A x \in Records(id) : CopiesIn(x, orders) = 1 /\ x["status"] = Str("completed")
C10_Witness ==
    \E id \in OrderIds :
        /\ CreatedThenCompleted(id)
        /\ \E x \in Records(id) : "customer_id" \in DOMAIN x /\ x["status"] = Str("completed")
AlreadyHandled(detail) == \E id \in DOMAIN dispatched : detail \in dispatched[id].handled
StatusOf(table, id) ==
    IF OrdersWith(table, Str(id)) = {} THEN "none"
    ELSE (CHOOSE x \in OrdersWith(table, Str(id)) : TRUE)["status"].s

\* C11: delivering again an event the handler has already processed leaves the
\* orders table as it was: the sequence with the redelivery at its end reaches
\* the state of the sequence without it.
C11_RedeliverySafe ==
    [][\A detail \in OrderDetails :
          (AlreadyHandled(detail) /\ Dispatch(Envelope(detail), FALSE, FALSE))
              => orders' = orders]_vars

\* C12: the stored status of an order never goes from completed back to
\* processing, and no order record appears with status completed unless an
\* order.created event for it has been dispatched.
C12_StatusLifecycle ==
    [][\A id \in OrderIds :
          /\ ~(StatusOf(orders, id) = "completed" /\ StatusOf(orders', id) = "processing")
          /\ (StatusOf(orders, id) = "none" /\ StatusOf(orders', id) = "completed")
                => Seen(dispatched', Str(id)).created]_vars
(***************************************************************************)
(* The REST API: create_item, get_item, update_item and delete_item on     *)
(* the items table                                                         *)
(***************************************************************************)
\* f"item_{datetime.utcnow().timestamp()}"
ItemId(n) == [t |-> "str", n |-> n, d |-> 1, s |-> "item_#", m |-> NoMembers]
ItemsWith(table, id) == {x \in BagToSet(table) : x["id"] = id}
\* the table key id is a non-empty string; the index keys status and created_at
\* are strings where present; boto3 refuses a float
ItemOk(item) ==
    /\ item["id"].t = "str" /\ item["id"] # Str("")
    /\ \A f \in {"status", "created_at"} \cap DOMAIN item : item[f].t = "str"
    /\ \A f \in DOMAIN item : ~HasFloat(item[f])
\* table.put_item (key: id)
PutApiItem(table, item) ==
    LET others == BagToSet(table) \ ItemsWith(table, item["id"])
    IN  [x \in others \cup {item} |-> IF x = item THEN 1 ELSE table[x]]
\* the item table.update_item SET leaves under the key: the stored one with the
\* fields set, or a new one of the key and the fields
UpdatedItem(table, id, sets) ==
    IF ItemsWith(table, id) = {} THEN sets @@ ("id" :> id)
    ELSE sets @@ (CHOOSE x \in ItemsWith(table, id) : TRUE)
\* table.delete_item
DeleteApiItem(table, id) ==
    LET rest == BagToSet(table) \ ItemsWith(table, id)
    IN  [x \in rest |-> table[x]]

\* event.get('pathParameters', {}).get('id', ''): raises on a null pathParameters
PathIdRaises(event) ==
    Has(event.m, "pathParameters") /\ event.m["pathParameters"].t # "map"
PathId(event) == Get(Get(event.m, "pathParameters", Map(NoMembers)).m, "id", Str(""))
\* json.loads(event.get('body', '{}'))
BodyText(event) == Get(event.m, "body", JsonText(Map(NoMembers)))
BodyRaises(event) == JsonLoadsRaises(BodyText(event)) \/ JsonLoads(BodyText(event)).t # "map"
Body(event) == JsonLoads(BodyText(event)).m
\* Decimal(str(body['price']))
PriceRaises(v) == ~(v.t \in {"int", "float", "dec"} \/ (v.t = "str" /\ v.s \in {"#", "#.0"}))
PriceDecimal(v) == [Dec(v.n) EXCEPT !.d = v.d]

ApiResp(route, code, id, fault) ==
    [called |-> TRUE, route |-> route, statusCode |-> code, id |-> id, fault |-> fault]
\* the whole get_item handler: result [resp, table]
GetHandler(event, table, storeFails) ==
    IF PathIdRaises(event) THEN [resp |-> ApiResp("get", 500, Null, FALSE), table |-> table]
    ELSE IF ~Truthy(PathId(event))
    THEN [resp |-> ApiResp("get", 400, PathId(event), FALSE), table |-> table]
    ELSE IF storeFails
    THEN [resp |-> ApiResp("get", 500, PathId(event), TRUE), table |-> table]
    ELSE IF ItemsWith(table, PathId(event)) = {}
    THEN [resp |-> ApiResp("get", 404, PathId(event), FALSE), table |-> table]
    ELSE [resp |-> ApiResp("get", 200, PathId(event), FALSE), table |-> table]
\* the whole delete_item handler: result [resp, table]
DeleteHandler(event, table, storeFails) ==
    IF PathIdRaises(event) THEN [resp |-> ApiResp("delete", 500, Null, FALSE), table |-> table]
    ELSE IF ~Truthy(PathId(event))
    THEN [resp |-> ApiResp("delete", 400, PathId(event), FALSE), table |-> table]
    ELSE IF storeFails
    THEN [resp |-> ApiResp("delete", 500, PathId(event), TRUE), table |-> table]
    ELSE IF ItemsWith(table, PathId(event)) = {}
    THEN [resp |-> ApiResp("delete", 404, PathId(event), FALSE), table |-> table]
    ELSE [resp |-> ApiResp("delete", 200, PathId(event), FALSE),
          table |-> DeleteApiItem(table, PathId(event))]
\* the fields update_item sets: those of the body it knows, and updated_at
UpdateSets(body, now) ==
    [f \in {"name", "description", "status", "tags"} \cap DOMAIN body |-> body[f]]
        @@ (IF Has(body, "price") THEN "price" :> PriceDecimal(body["price"]) ELSE <<>>)
        @@ ("updated_at" :> TimeStr(now))
\* the whole update_item handler: result [resp, table]
UpdateHandler(event, table, now, storeFails) ==
    IF PathIdRaises(event) THEN [resp |-> ApiResp("update", 500, Null, FALSE), table |-> table]
    ELSE IF ~Truthy(PathId(event))
    THEN [resp |-> ApiResp("update", 400, PathId(event), FALSE), table |-> table]
    ELSE IF BodyRaises(event) \/ (Has(Body(event), "price") /\ PriceRaises(Body(event)["price"]))
    THEN [resp |-> ApiResp("update", 500, PathId(event), FALSE), table |-> table]
    ELSE LET item == UpdatedItem(table, PathId(event), UpdateSets(Body(event), now))
         IN  IF storeFails \/ ~ItemOk(item)
             THEN [resp |-> ApiResp("update", 500, PathId(event), storeFails), table |-> table]
             ELSE [resp |-> ApiResp("update", 200, PathId(event), FALSE),
                   table |-> PutApiItem(table, item)]
\* the item create_item builds
NewItem(body, now) ==
    ("id" :> ItemId(now)) @@ ("name" :> body["name"])
        @@ ("description" :> Get(body, "description", Str("")))
        @@ ("status" :> Get(body, "status", Str("active")))
        @@ ("created_at" :> TimeStr(now)) @@ ("updated_at" :> TimeStr(now))
        @@ (IF Has(body, "price") THEN "price" :> PriceDecimal(body["price"]) ELSE <<>>)
        @@ (IF Has(body, "tags") THEN "tags" :> body["tags"] ELSE <<>>)
\* the whole create_item handler: result [resp, table]
CreateHandler(event, table, now, storeFails) ==
    IF BodyRaises(event) THEN [resp |-> ApiResp("create", 500, Null, FALSE), table |-> table]
    ELSE IF ~Has(Body(event), "name")
    THEN [resp |-> ApiResp("create", 400, Null, FALSE), table |-> table]
    ELSE IF Has(Body(event), "price") /\ PriceRaises(Body(event)["price"])
    THEN [resp |-> ApiResp("create", 500, Null, FALSE), table |-> table]
    ELSE IF storeFails \/ ~ItemOk(NewItem(Body(event), now))
    THEN [resp |-> ApiResp("create", 500, ItemId(now), storeFails), table |-> table]
    ELSE [resp |-> ApiResp("create", 201, ItemId(now), FALSE),
          table |-> PutApiItem(table, NewItem(Body(event), now))]

\* the requests sent to the API
ById(id) == "pathParameters" :> Map("id" :> id)
PathEvents ==
    {ById(ItemId(n)) : n \in 1..MaxClock}
        \cup {ById(Str("")), "pathParameters" :> Map(NoMembers), "pathParameters" :> Null, <<>>}
CreateBodies ==
    {JsonText(Map(("name" :> Str("widget")) @@ ("price" :> Ratio(999, 100)))),
     JsonText(Map(("name" :> Str("gadget")) @@ ("status" :> Int_(1)))),
     JsonText(Map("name" :> Str("gizmo"))),
     JsonText(Map("description" :> Str("no name"))), NotJson}
UpdateBodies ==
    {JsonText(Map("status" :> Str("inactive"))), JsonText(Map("price" :> Str("abc"))), NotJson}

ApiStep(r) ==
    /\ items_table' = r.table
    /\ apiOut' = r.resp
    /\ UNCHANGED exceptApi
CreateItem ==
    \E body \in CreateBodies, storeFails \in BOOLEAN :
        ApiStep(CreateHandler(Map("body" :> body), items_table, clock, storeFails))
CreateWithoutBody == ApiStep(CreateHandler(Map(NoMembers), items_table, clock, FALSE))
GetItem ==
    \E path \in PathEvents, storeFails \in BOOLEAN :
        ApiStep(GetHandler(Map(path), items_table, storeFails))
UpdateItem ==
    \E path \in PathEvents, body \in UpdateBodies, storeFails \in BOOLEAN :
        ApiStep(UpdateHandler(Map(path @@ ("body" :> body)), items_table, clock, storeFails))
DeleteItem ==
    \E path \in PathEvents, storeFails \in BOOLEAN :
        ApiStep(DeleteHandler(Map(path), items_table, storeFails))
ApiTick ==
    /\ clock < MaxClock
    /\ clock' = clock + 1
    /\ UNCHANGED <<source, staging, dest, extractOut, transformOut, loadOut, lastLoad,
                   chatVars, orderVars, apiVars, concVars, streamVars>>

InitApi ==
    /\ ApiIdle /\ StreamIdle /\ ConcIdle
    /\ source = <<>> /\ staging = EmptyBucket /\ dest = EmptyBag /\ clock = 1
    /\ extractOut = NoExtractResp /\ transformOut = NoTransformResp
    /\ loadOut = NoLoadResp /\ lastLoad = NoLoad
    /\ ChatIdle /\ OrdersIdle
NextApi == CreateItem \/ CreateWithoutBody \/ GetItem \/ UpdateItem \/ DeleteItem \/ ApiTick
SpecApi == InitApi /\ [][NextApi]_vars

(***************************************************************************)
(* Properties of the REST API                                              *)
(***************************************************************************)
ById_Routes == {"get", "update", "delete"}
Answered == apiOut'.called /\ apiOut'.route \in ById_Routes /\ ~apiOut'.fault /\ apiOut' # apiOut

\* C13: get_item, update_item and delete_item answer a request for an id that
\* is not in the items table with 404 and leave the table as it is, and answer
\* a request with an empty id with 400.
C13_AbsentIdIs404 ==
    [][Answered =>
          /\ (apiOut'.id.t = "str" /\ apiOut'.id # Str("") /\ ItemsWith(items_table, apiOut'.id) = {})
                => (apiOut'.statusCode = 404 /\ items_table' = items_table)
          /\ apiOut'.id = Str("") => apiOut'.statusCode = 400]_vars
\* C14: the connections table holds exactly the connection ids that have
\* connected and have not since disconnected or been evicted: connect creates
\* the record, disconnect removes it, and a broadcast attempts delivery only to
\* connections that were in the table when it started.
C14_PresentIffLive ==
    /\ ConnectionIds(connections) = live
    /\ Broadcasted => BagToSet(attempts) \subseteq ConnectionIds(lastBroadcast.before)
\* a connection that had sent a message has disconnected, others are still there
C14_Witness ==
    /\ chatOut.route = "disconnect" /\ chatOut.statusCode = 200
    /\ \E x \in BagToSet(messages) : x.connection_id \notin ConnectionIds(connections)
    /\ Cardinality(live) = 2
(***************************************************************************)
(* The chat over time: connections age, and the table's time-to-live       *)
(* eviction removes an expired record at some moment after its expiry      *)
(***************************************************************************)
MaxChatClock == 3   \* clock ticks (days) the chat is followed over

Expired(conn, now) == conn.ttl < now
ChatTick ==
    /\ clock < MaxChatClock
    /\ clock' = clock + 1
    /\ attempts' = EmptyBag /\ lastBroadcast' = NoBroadcast /\ chatOut' = NoChatResp
    /\ UNCHANGED <<connections, messages, live, source, staging, dest, extractOut,
                   transformOut, loadOut, lastLoad, orderVars, apiVars, concVars,
                   streamVars>>
\* time_to_live_attribute="ttl": the table drops an expired item, not at once
TtlEviction ==
    \E x \in BagToSet(connections) :
        /\ Expired(x, clock)
        /\ connections' = DeleteConnection("connect", connections, x.connection_id).table
        /\ live' = live \ {x.connection_id}
        /\ attempts' = EmptyBag /\ lastBroadcast' = NoBroadcast /\ chatOut' = NoChatResp
        /\ UNCHANGED <<messages, exceptChat>>
ConnectToDefault == \E id \in Conns : Connect(id, "default", "anonymous", FALSE, FALSE)
SendToDefault ==
    \E id \in Senders :
        \E order \in Orders(ScanRoom(connections, "default")) :
            Send(id, "message" :> "hi", order, {}, FALSE, FALSE)
NextExpiry == ConnectToDefault \/ SendToDefault \/ ChatTick \/ TtlEviction
SpecExpiry == InitChat /\ [][NextExpiry]_vars

\* C15: a broadcast attempts no delivery to a connection whose ttl has passed,
\* whether or not the table has evicted its record yet.
C15_NoDeliveryToExpired ==
    Broadcasted =>
        \A id \in BagToSet(attempts) : ~Expired(ConnectionOf(lastBroadcast.before, id), clock)
SendAccepted == chatOut'.called /\ chatOut'.route = "default" /\ chatOut'.statusCode = 200

\* C16: a stored message is never overwritten, changed or removed by a later
\* operation, and every accepted send adds one record, so that the number of
\* stored messages is the number of accepted sends.
C16_MessagesKept ==
    [][/\ \A x \in BagToSet(messages) : x \in BagToSet(messages')
       /\ SendAccepted => BagCardinality(messages') = BagCardinality(messages) + 1]_vars
(***************************************************************************)
(* inventory_processor.handler on the inventory table                      *)
(***************************************************************************)
InventoryWith(table, id) == {x \in BagToSet(table) : x["item_id"] = id}
\* inventory_table.put_item (key: item_id)
PutInventory(table, item) ==
    LET others == BagToSet(table) \ InventoryWith(table, item["item_id"])
    IN  [x \in others \cup {item} |-> IF x = item THEN 1 ELSE table[x]]
InventoryItem(item_id, data) ==
    ("item_id" :> item_id) @@ ("quantity" :> Get(data.m, "quantity", Int_(0)))
        @@ ("updated_at" :> Get(data.m, "updatedAt", Str("")))
InventoryItemOk(item) ==
    OrderKeyOk(item["item_id"]) /\ \A f \in DOMAIN item : ~HasFloat(item[f])
\* lines 31-71, one event; st = [table, processed]
ProcessInventoryEvent(st, event_data, storeFails) ==
    IF event_data.t # "map" THEN st
    ELSE LET raw == Get(event_data.m, "detail", Map(NoMembers))
         IN  IF raw.t = "str" /\ JsonLoadsRaises(raw) THEN st
             ELSE LET detail == IF raw.t = "str" THEN JsonLoads(raw) ELSE raw
                  IN  IF detail.t # "map" THEN st
                      ELSE LET event_type == Get(detail.m, "eventType", Str(""))
                               inventory_data == Get(detail.m, "data", Map(NoMembers))
                           IN  IF event_type # Str("inventory.updated") \/ inventory_data.t # "map"
                               THEN st
                               ELSE LET item_id == Get(inventory_data.m, "itemId", Str(""))
                                        item == InventoryItem(item_id, inventory_data)
                                    IN  IF ~Truthy(item_id) \/ storeFails \/ ~InventoryItemOk(item)
                                        THEN st
                                        ELSE [table |-> PutInventory(st.table, item),
                                              processed |-> Append(st.processed, item_id)]
RECURSIVE ProcessInventoryLoop(_, _, _, _)
ProcessInventoryLoop(st, events, i, storeFails) ==
    IF i > Len(events) THEN st
    ELSE ProcessInventoryLoop(ProcessInventoryEvent(st, events[i], storeFails), events, i + 1,
                              storeFails)
\* the whole handler: result [resp, table]
InventoryHandler(event, table, storeFails) ==
    IF NormalizeRaises(event)
    THEN [resp |-> [NoInventoryResp EXCEPT !.called = TRUE, !.raised = TRUE], table |-> table]
    ELSE LET st == ProcessInventoryLoop([table |-> table, processed |-> <<>>],
                                        EventsToProcess(event), 1, storeFails)
         IN  [resp |-> [called |-> TRUE, raised |-> FALSE, statusCode |-> 200,
                        processedItems |-> Len(st.processed), items |-> st.processed],
              table |-> st.table]

(***************************************************************************)
(* Two invocations of one handler at once.  Each store write is one step;  *)
(* the two invocations take their steps in any order.                      *)
(***************************************************************************)
MaxWrites == 2   \* records or events of one invocation

\* a write acts on the table as it is in the store when the write arrives
SharedTableStale(shared, start) == start
SharedTable(shared, start) == shared

GoodB == ("id" :> Str("b")) @@ ("timestamp" :> Str("t1")) @@ ("price" :> Int_(42))
RecordsA == {GoodA, GoodA2}
RecordsB == {GoodB, NoTimestamp}
SecondOrder == OrderNames[2]
OrderEventsOf(id) ==
    {Envelope(Detail("order.created", WholeOrder(id))),
     Envelope(Detail("order.completed", Completion(id)))}
Stock(id, n) == ("itemId" :> Str(id)) @@ ("quantity" :> n) @@ ("updatedAt" :> Str("2024-01-01"))
InventoryEventsOf(id) ==
    {Envelope(Detail("inventory.updated", Stock(id, Int_(5)))),
     Envelope(Detail("inventory.updated", Stock(id, Int_(7)))),
     Envelope(Detail("inventory.updated", Stock(id, Ratio(5, 2))))}

LoadLocal == [loaded |-> 0, errors |-> <<>>]
OrderLocal == [processed |-> <<>>, published |-> 0, seen |-> <<>>]
InventoryLocal == [processed |-> <<>>]
Invocation(input, local) == [input |-> input, i |-> 1, local |-> local]
Pending(p) == running[p].i <= Len(running[p].input)
Next_(p) == running[p].input[running[p].i]
Local(st) == [f \in DOMAIN st \ {"table"} |-> st[f]]
Advance(p, st) == [running EXCEPT ![p].i = @ + 1, ![p].local = Local(st)]

LoadWrite(p) ==
    /\ running.kind = "load" /\ Pending(p)
    /\ \E st \in {LoadRecord([table |-> SharedTable(dest, running.start)] @@ running[p].local,
                             Next_(p), FALSE)} :
          /\ dest' = st.table
          /\ running' = Advance(p, st)
    /\ UNCHANGED <<source, staging, clock, extractOut, transformOut, loadOut, lastLoad,
                   chatVars, orderVars, apiVars, inventory, inventoryOut, streamVars>>
OrderWrite(p) ==
    /\ running.kind = "orders" /\ Pending(p)
    /\ \E st \in {ProcessEvent([table |-> SharedTable(orders, running.start)]
                                  @@ running[p].local, Next_(p), FALSE, FALSE)} :
          /\ orders' = st.table
          /\ running' = Advance(p, st)
    /\ UNCHANGED <<etlVars, chatVars, dispatched, orderOut, apiVars, inventory, inventoryOut,
                   streamVars>>
InventoryWrite(p) ==
    /\ running.kind = "inventory" /\ Pending(p)
    /\ \E st \in {ProcessInventoryEvent([table |-> SharedTable(inventory, running.start)]
                                           @@ running[p].local, Next_(p), FALSE)} :
          /\ inventory' = st.table
          /\ running' = Advance(p, st)
    /\ UNCHANGED <<etlVars, chatVars, orderVars, apiVars, inventoryOut, streamVars>>

Started(kind, start, a, b, local) ==
    running = [kind |-> kind, start |-> start, a |-> Invocation(a, local),
               b |-> Invocation(b, local)]
InitConcurrent ==
    /\ source = <<>> /\ staging = EmptyBucket /\ clock = 0
    /\ extractOut = NoExtractResp /\ transformOut = NoTransformResp
    /\ loadOut = NoLoadResp /\ lastLoad = NoLoad
    /\ ChatIdle /\ ApiIdle /\ StreamIdle
    /\ dispatched = <<>> /\ orderOut = NoOrderResp
    /\ inventoryOut = NoInventoryResp
    /\ \/ /\ dest \in {EmptyBag, SetToBag({ToItem(GoodA2)})}
          /\ orders = EmptyBag /\ inventory = EmptyBag
          /\ \E a \in SeqsUpTo(RecordsA, MaxWrites), b \in SeqsUpTo(RecordsB, MaxWrites) :
                Started("load", dest, a, b, LoadLocal)
       \/ /\ orders \in {EmptyBag, SetToBag({OrderItem(Str(FirstOrder), Map(WholeOrder(FirstOrder)))})}
          /\ dest = EmptyBag /\ inventory = EmptyBag
          /\ \E a \in SeqsUpTo(OrderEventsOf(FirstOrder), MaxWrites),
                b \in SeqsUpTo(OrderEventsOf(SecondOrder), MaxWrites) :
                Started("orders", orders, a, b, OrderLocal)
       \/ /\ inventory \in {EmptyBag, SetToBag({InventoryItem(Str("ITEM-001"), Map(Stock("ITEM-001", Int_(1))))})}
          /\ dest = EmptyBag /\ orders = EmptyBag
          /\ \E a \in SeqsUpTo(InventoryEventsOf("ITEM-001"), MaxWrites),
                b \in SeqsUpTo(InventoryEventsOf("ITEM-002"), MaxWrites) :
                Started("inventory", inventory, a, b, InventoryLocal)
NextConcurrent ==
    \E p \in {"a", "b"} : LoadWrite(p) \/ OrderWrite(p) \/ InventoryWrite(p)
SpecConcurrent == InitConcurrent /\ [][NextConcurrent]_vars

\* the table after the invocation on first has run and then the one on second
OneAfterTheOther(first, second) ==
    CASE running.kind = "load" ->
            LoadLoop([table |-> LoadLoop([table |-> running.start] @@ LoadLocal,
                                         first, 1, 0).table] @@ LoadLocal, second, 1, 0).table
      [] running.kind = "orders" ->
            ProcessLoop([table |-> ProcessLoop([table |-> running.start] @@ OrderLocal,
                                               first, 1, FALSE, FALSE).table] @@ OrderLocal,
                        second, 1, FALSE, FALSE).table
      [] OTHER ->
            ProcessInventoryLoop([table |-> ProcessInventoryLoop(
                                     [table |-> running.start] @@ InventoryLocal,
                                     first, 1, FALSE).table] @@ InventoryLocal,
                                 second, 1, FALSE).table
TableOfRunning ==
    CASE running.kind = "load" -> dest
      [] running.kind = "orders" -> orders
      [] OTHER -> inventory
BothDone == running.kind # "none" /\ ~Pending("a") /\ ~Pending("b")

\* C17: when two concurrent invocations of the Loader, of the order dispatcher
\* or of the inventory dispatcher on disjoint record identifiers have both
\* finished, whatever the order of their store writes, the table is the one
\* reached by running them one after the other, in either order.
C17_DisjointConcurrentSafe ==
    BothDone =>
        /\ TableOfRunning = OneAfterTheOther(running.a.input, running.b.input)
        /\ TableOfRunning = OneAfterTheOther(running.b.input, running.a.input)
C17_Witness ==
    /\ BothDone
    /\ Len(running.a.input) = 2 /\ Len(running.b.input) = 2
    /\ BagCardinality(TableOfRunning) = 2
    /\ running.start # EmptyBag

(***************************************************************************)
(* Further properties of the pipeline                                      *)
(***************************************************************************)
\* a record whose transformation raises: it holds a type-tagged number that
\* float() refuses
RaisesOnRecord(rec) == \E f \in DOMAIN rec : BadTaggedNumber(rec[f])
Indices(seq) == [i \in 1..Len(seq) |-> i]
KeptIndices(batch) == SelectSeq(Indices(batch), LAMBDA i : ~RaisesOnRecord(batch[i]))

\* C18: whenever transform.handler is invoked on a staging blob that is there
\* and can write its output, it answers 200, recordsTransformed is the batch
\* size minus the number of records whose transformation raises, and the
\* output blob holds one record for every other record of the batch, in order.
C18_BadRecordsDropped ==
    [][\A shape \in {"direct", "payload"} :
         ( /\ StagedKey \in DOMAIN staging
           /\ Transform(LoadEvent(shape, StagedKey), FALSE) )
         => LET batch == staging[StagedKey]
            IN  /\ ~transformOut'.raised /\ transformOut'.statusCode = 200
                /\ transformOut'.recordsTransformed = Len(batch) - Count(batch, RaisesOnRecord)
                /\ transformOut'.origin = KeptIndices(batch)
                /\ Len(batch) > 0 =>
                      Len(staging'[transformOut'.transformedKey]) = Len(KeptIndices(batch))
      ]_vars
C18_Witness ==
    /\ TransformWrote
    /\ Len(TransformInput) = 2
    /\ RaisesOnRecord(TransformInput[1]) /\ ~RaisesOnRecord(TransformInput[2])
    /\ transformOut.recordsTransformed = 1
    /\ Len(TransformOutput) = 1

\* an execution in which extract, transform and load ran on one another's keys
\* and every one answered 200, no call to a store having failed
PipelineSucceeded ==
    /\ extractOut.called /\ ~extractOut.raised /\ extractOut.statusCode = 200
    /\ TransformReturned /\ transformOut.originalKey = extractOut.stagingKey
    /\ LoadReturned /\ lastLoad.event.key = transformOut.transformedKey
    /\ ~lastLoad.archiveFails /\ lastLoad.down = 0
Suffix(key) == key.stamp

\* C19: transform answers extract's key extracted/<suffix> with
\* transformed/<suffix>; an archived blob is in the bucket only if the
\* transformed blob of the same suffix is; and after an execution in which all
\* three handlers answered 200 the extracted, the transformed and the archived
\* blob of the execution are all in the bucket.
C19_HandoffKeysKeepSuffix ==
    /\ (TransformReturned /\ transformOut.originalKey.prefix = "extracted")
          => transformOut.transformedKey = Key("transformed", Suffix(transformOut.originalKey))
    /\ \A k \in DOMAIN staging :
          k.prefix = "archived" => Key("transformed", Suffix(k)) \in DOMAIN staging
    /\ PipelineSucceeded
          => \A prefix \in {"extracted", "transformed", "archived"} :
                Key(prefix, Suffix(extractOut.stagingKey)) \in DOMAIN staging

(***************************************************************************)
(* Further properties of the loader                                        *)
(***************************************************************************)
ArchivedKey == ReplacePrefix(TKey, "transformed", "archived")
\* the same invocation, the archive copy succeeding
WithArchive == LoadHandler(lastLoad.event, staging, lastLoad.before, lastLoad.down, FALSE)

\* C20: when the archive copy fails, load.handler answers as it does when the
\* copy succeeds (200, the same recordsLoaded, errors and errorDetails) and
\* leaves the same destination table; and the archived blob appears only in an
\* invocation that has gone through every record of the batch.
C20_ArchiveFailureSwallowed ==
    /\ []((loadOut.called /\ lastLoad.archiveFails)
            => /\ LoadReturned /\ loadOut.statusCode = 200
               /\ loadOut = WithArchive.resp
               /\ dest = WithArchive.table)
    /\ [][(ArchivedKey \notin DOMAIN staging /\ ArchivedKey \in DOMAIN staging')
            => /\ ~loadOut'.raised
               /\ loadOut'.recordsLoaded + loadOut'.errors = Len(staging[TKey])]_vars
C20_Witness ==
    /\ LoadReturned /\ lastLoad.archiveFails
    /\ loadOut.recordsLoaded > 0 /\ loadOut.errors > 0
    /\ dest # lastLoad.before
    /\ ArchivedKey \notin DOMAIN staging

\* a record the destination's key schema admits: id and timestamp are
\* non-empty strings
Loadable(rec) == IsKeyString(rec, "id") /\ IsKeyString(rec, "timestamp")
\* the stored form of a value: a number as a number, a boolean as a boolean,
\* a string as a string, list elements and other nested values as text
StoredNested(v) ==
    CASE v.t \in {"int", "float"} -> ToDecimal(v)
      [] v.t = "bool" -> v
      [] OTHER -> PyStr(v)
StoredValue(v) ==
    CASE v.t \in {"int", "float"} -> ToDecimal(v)
      [] v.t = "bool" -> v
      [] v.t = "map" -> Map([k \in {k \in DOMAIN v.m : v.m[k].t # "null"} |-> StoredNested(v.m[k])])
      [] v.t = "list" -> List([k \in DOMAIN v.m |-> PyStr(v.m[k])])
      [] OTHER -> PyStr(v)
StoredItem(rec) == [f \in {f \in DOMAIN rec : rec[f].t # "null"} |-> StoredValue(rec[f])]
LastOfKey(batch, i) ==
    \A j \in DOMAIN batch : (j > i /\ Loadable(batch[j])) => DestKey(batch[j]) # DestKey(batch[i])

\* C21: when load.handler has returned and the store refused no write, every
\* record with an id and a timestamp is counted in recordsLoaded, whatever the
\* types of its fields, and the table holds its coerced form: numbers as
\* numbers, booleans as booleans, strings as strings, nulls dropped, list
\* elements and other nested values as text.
C21_CoercedNotRejected ==
    (LoadReturned /\ lastLoad.down = 0)
    => /\ loadOut.recordsLoaded = Count(LoadedBatch, Loadable)
       /\ \A i \in DOMAIN LoadedBatch :
             (Loadable(LoadedBatch[i]) /\ LastOfKey(LoadedBatch, i))
                => StoredItem(LoadedBatch[i]) \in BagToSet(dest)

(***************************************************************************)
(* Two transformed blobs loaded one after the other, any number of times   *)
(***************************************************************************)
MaxBatch == 2    \* most records in each of the two blobs

LaterA == ("id" :> Str("a")) @@ ("timestamp" :> Str("t2")) @@ ("processed_at" :> Str("p3"))
UpsertRecords == {GoodA, GoodA2, LaterA}
SecondKey == Key("transformed", 3)
LoadFirst == Load(LoadEvent("direct", TKey), 0, FALSE)
LoadSecond == \E archiveFails \in BOOLEAN : Load(LoadEvent("direct", SecondKey), 0, archiveFails)
InitUpsert ==
    /\ \E first, second \in SeqsUpTo(UpsertRecords, MaxBatch) :
          staging = (TKey :> first) @@ (SecondKey :> second)
    /\ dest = EmptyBag
    /\ loadOut = NoLoadResp
    /\ lastLoad = NoLoad
    /\ EtlIdle /\ ChatIdle /\ OrdersIdle /\ ApiIdle /\ StreamIdle /\ ConcIdle
NextUpsert == LoadFirst \/ LoadSecond
SpecUpsert == InitUpsert /\ [][NextUpsert]_vars

\* C22: after load.handler has returned, the destination table holds at most
\* one record for each id, and the record it holds for an id is the one made
\* from the last record of that id in the batch just loaded.
C22_UpsertById ==
    LoadReturned
    => /\ \A x, y \in BagToSet(dest) : x["id"] = y["id"] => x = y
       /\ \A x \in BagToSet(dest) : dest[x] = 1
       /\ \A i \in DOMAIN LoadedBatch :
             (\A j \in DOMAIN LoadedBatch : j > i => LoadedBatch[j]["id"] # LoadedBatch[i]["id"])
                => ToItem(LoadedBatch[i]) \in BagToSet(dest)

(***************************************************************************)
(* The shapes in which one envelope reaches the dispatchers                *)
(***************************************************************************)
Wraps == {"bare", "records", "body"}
\* the envelope of a detail: its data payload and the detail itself given as
\* objects or as JSON text, delivered bare, as an entry of Records, or as the
\* JSON body of an entry of Records
Shaped(detail, wrap, detailEncoded, dataEncoded) ==
    LET data == detail.m["data"]
        shapedDetail == Map(("eventType" :> detail.m["eventType"])
                            @@ ("data" :> IF dataEncoded THEN JsonText(data) ELSE data))
        envelope == Envelope(IF detailEncoded THEN JsonText(shapedDetail) ELSE shapedDetail)
    IN  CASE wrap = "bare" -> envelope
          [] wrap = "records" -> Map("Records" :> ListOf(<<envelope>>))
          [] OTHER -> Map("Records" :> ListOf(<<Map("body" :> JsonText(envelope))>>))
ShapedOrderDetails ==
    UNION {{Detail("order.created", WholeOrder(id)), Detail("order.completed", Completion(id))}
           : id \in OrderIds}
ShapedStockDetails ==
    {Detail("inventory.updated", Stock(id, Int_(n))) : id \in {"ITEM-001", "ITEM-002"}, n \in {5, 7}}

DispatchInventory(event, storeFails) ==
    \E r \in {InventoryHandler(event, inventory, storeFails)} :
        /\ inventory' = r.table
        /\ inventoryOut' = r.resp
        /\ UNCHANGED <<etlVars, chatVars, orderVars, apiVars, running, streamVars>>
DispatchShaped ==
    \E detail \in ShapedOrderDetails, wrap \in Wraps, detailEncoded, dataEncoded \in BOOLEAN :
        Dispatch(Shaped(detail, wrap, detailEncoded, dataEncoded), FALSE, FALSE)
DispatchInventoryShaped ==
    \E detail \in ShapedStockDetails, wrap \in Wraps, detailEncoded, dataEncoded \in BOOLEAN :
        DispatchInventory(Shaped(detail, wrap, detailEncoded, dataEncoded), FALSE)
NextShapes == DispatchShaped \/ DispatchInventoryShaped
SpecShapes == InitOrders /\ [][NextShapes]_vars

\* C23: an envelope delivered in any tolerated shape (bare, in Records, as the
\* JSON body of a Records entry; detail and data payload as objects or as
\* JSON text) leaves the table and the processed list that the bare, fully
\* decoded envelope leaves.
C23_ShapesNormalized ==
    [][/\ \A detail \in ShapedOrderDetails, wrap \in Wraps, detailEncoded, dataEncoded \in BOOLEAN :
            Dispatch(Shaped(detail, wrap, detailEncoded, dataEncoded), FALSE, FALSE)
            => LET bare == OrderHandler(Envelope(detail), orders, dispatched, FALSE, FALSE)
               IN  orders' = bare.table /\ orderOut'.orders = bare.resp.orders
       /\ \A detail \in ShapedStockDetails, wrap \in Wraps, detailEncoded, dataEncoded \in BOOLEAN :
            DispatchInventory(Shaped(detail, wrap, detailEncoded, dataEncoded), FALSE)
            => LET bare == InventoryHandler(Envelope(detail), inventory, FALSE)
               IN  inventory' = bare.table /\ inventoryOut'.items = bare.resp.items
      ]_vars

OrderOf(table, id) == CHOOSE x \in OrdersWith(table, Str(id)) : TRUE
\* C24: order.completed for an order that is in the table changes the status
\* field of that order's record and nothing else: its other fields are kept,
\* and the records of the other orders stay as they are.
C24_CompletedTouchesStatusOnly ==
    [][\A x \in BagToSet(orders) :
         \* the invocation handled one event, an order.completed for the order of x
         ( /\ orderOut'.called /\ ~orderOut'.raised
           /\ orderOut'.orders = <<x["order_id"]>>
           /\ Seen(dispatched', x["order_id"]).last = "order.completed" )
         => /\ \A y \in BagToSet(orders) \ {x} : y \in BagToSet(orders') /\ orders'[y] = orders[y]
            /\ BagCardinality(orders') = BagCardinality(orders)
            /\ \E z \in BagToSet(orders') :
                  /\ DOMAIN z = DOMAIN x
                  /\ \A f \in DOMAIN x \ {"status"} : z[f] = x[f]
                  /\ z["status"] = Str("completed")
      ]_vars
C24_Witness ==
    /\ orderOut.called /\ orderOut.orders # <<>>
    /\ BagCardinality(orders) = 2
    /\ \E x \in BagToSet(orders) :
          /\ x["status"] = Str("completed")
          /\ {"customer_id", "items", "total", "created_at"} \subseteq DOMAIN x
          /\ orderOut.orders[1] = x["order_id"]
          /\ Seen(dispatched, x["order_id"]).last = "order.completed"

MalformedEntry(entry) == Has(entry.m, "body") /\ entry.m["body"] = NotJson
\* C25: an invocation over a list of records answers 200 and processes every
\* well-formed entry, also when another entry of the list is malformed.
C25_BadRecordDoesNotBlock ==
    [][\A entries \in SeqsUpTo(RecordEntries, MaxRecords) :
         Dispatch(Map("Records" :> ListOf(entries)), FALSE, FALSE)
         => /\ ~orderOut'.raised /\ orderOut'.statusCode = 200
            /\ orderOut'.processedOrders
                  = Cardinality({i \in DOMAIN entries : ~MalformedEntry(entries[i])})
      ]_vars

(***************************************************************************)
(* realtime_processor/index.handler: one batch of Kinesis records          *)
(***************************************************************************)
MaxStream == 2     \* most records in a batch
MetricsTtl == 30   \* days a metrics item lives
ArrivalTime == 1   \* approximateArrivalTimestamp of the records of the batch

\* base64 text of a string, and the decoding of lines 25-26
B64(text) == [t |-> "str", n |-> 0, d |-> 1, s |-> "b64", m |-> ("0" :> text)]
NotB64 == Str("%%%")
DecodeRaises(data) ==
    \/ ~(data.t = "str" /\ data.s = "b64")
    \/ JsonLoadsRaises(data.m["0"])
Decode(data) == JsonLoads(data.m["0"])

AddFloat(a, b) == Ratio(a.n * b.d + b.n * a.d, a.d * b.d)
\* 'value' in payload raises unless payload is a container or a string
ValueTestRaises(payload) == payload.t \notin {"map", "list", "str"}
HasValue(payload) == payload.t = "map" /\ Has(payload.m, "value")
NewMetric == [count |-> 0, total_value |-> Int_(0), last_updated |-> TimeStr(ArrivalTime)]
ArchiveKey(record, i) == [prefix |-> "raw", partition_key |-> record.partitionKey, seq |-> i]

\* lines 22-67, record i of the batch; st = [agg, archive, processed]
ProcessRecord(st, record, i, archiveFails) ==
    IF DecodeRaises(record.data) THEN st
    ELSE LET payload == Decode(record.data)
             pk == record.partitionKey
             old == IF pk \in DOMAIN st.agg THEN st.agg[pk] ELSE NewMetric
             counted == [old EXCEPT !.count = @ + 1]
             withCount == [st EXCEPT !.agg = (pk :> counted) @@ @]
         IN  IF ValueTestRaises(payload) THEN withCount
             ELSE IF HasValue(payload) /\ ~PyFloat(payload.m["value"]).ok THEN withCount
             ELSE LET summed ==
                          IF HasValue(payload)
                          THEN [counted EXCEPT !.total_value =
                                   AddFloat(@, PyFloat(payload.m["value"]).v)]
                          ELSE counted
                      withSum == [st EXCEPT !.agg = (pk :> summed) @@ @]
                  IN  IF archiveFails THEN withSum
                      ELSE [withSum EXCEPT !.archive = @ \cup {ArchiveKey(record, i)},
                                           !.processed = Append(@, i)]
RECURSIVE ProcessRecords(_, _, _, _)
ProcessRecords(st, batch, i, archiveDown) ==
    IF i > Len(batch) THEN st
    ELSE ProcessRecords(ProcessRecord(st, batch[i], i, i = archiveDown), batch, i + 1,
                        archiveDown)

MetricKey(item) == <<item["partition_key"], item["timestamp"]>>
PutMetric(table, item) ==
    LET others == {x \in BagToSet(table) : MetricKey(x) # MetricKey(item)}
    IN  [x \in others \cup {item} |-> IF x = item THEN 1 ELSE table[x]]
MetricItem(pk, m, now) ==
    ("partition_key" :> Str(pk)) @@ ("timestamp" :> m.last_updated)
        @@ ("count" :> Int_(m.count))
        @@ ("total_value" :> ToDecimal(m.total_value))
        @@ ("average_value" :> ToDecimal(Divide(m.total_value, Int_(m.count))))
        @@ ("ttl" :> Int_(now + MetricsTtl))
\* lines 70-83: one put_item for every key of aggregated_metrics
RECURSIVE StoreMetrics(_, _, _, _, _)
StoreMetrics(table, agg, keys, metricFails, now) ==
    IF keys = {} THEN table
    ELSE LET pk == CHOOSE k \in keys : TRUE
         IN  StoreMetrics(IF pk \in metricFails THEN table
                          ELSE PutMetric(table, MetricItem(pk, agg[pk], now)),
                          agg, keys \ {pk}, metricFails, now)
\* the whole handler: result [resp, table, archive]
StreamHandler(batch, table, bucket, now, archiveDown, metricFails) ==
    LET st == ProcessRecords([agg |-> <<>>, archive |-> bucket, processed |-> <<>>],
                             batch, 1, archiveDown)
    IN  [resp |-> [called |-> TRUE, statusCode |-> 200,
                   processedRecords |-> Len(st.processed),
                   aggregatedMetrics |-> Cardinality(DOMAIN st.agg),
                   processed |-> st.processed, archiveDown |-> archiveDown,
                   metricFails |-> metricFails],
         table |-> StoreMetrics(table, st.agg, DOMAIN st.agg, metricFails, now),
         archive |-> st.archive]

SensorIds == {"sensor-001", "sensor-002"}
Reading(value) == Map(("sensorId" :> Str("sensor-001")) @@ ("value" :> value))
StreamPayloads ==
    {B64(JsonText(Reading(Ratio(51, 2)))), B64(JsonText(Reading(Int_(20)))),
     B64(JsonText(Map("location" :> Str("building-A")))),
     B64(JsonText(Reading(Str("n/a")))), NotB64}
StreamEntries == {[partitionKey |-> pk, data |-> data] : pk \in SensorIds, data \in StreamPayloads}

ProcessBatch ==
    /\ ~streamOut.called
    /\ \E archiveDown \in 0..Len(stream), metricFails \in SUBSET SensorIds :
          \E r \in {StreamHandler(stream, metrics, archive, clock, archiveDown, metricFails)} :
              /\ metrics' = r.table
              /\ archive' = r.archive
              /\ streamOut' = r.resp
    /\ UNCHANGED <<stream, etlVars, chatVars, orderVars, apiVars, concVars>>
InitStream ==
    /\ stream \in SeqsUpTo(StreamEntries, MaxStream)
    /\ metrics = EmptyBag /\ archive = {} /\ streamOut = NoStreamResp
    /\ source = <<>> /\ staging = EmptyBucket /\ dest = EmptyBag /\ clock = 0
    /\ extractOut = NoExtractResp /\ transformOut = NoTransformResp
    /\ loadOut = NoLoadResp /\ lastLoad = NoLoad
    /\ ChatIdle /\ OrdersIdle
    /\ items_table = EmptyBag /\ apiOut = NoApiResp /\ ConcIdle
NextStream == ProcessBatch
SpecStream == InitStream /\ [][NextStream]_vars

\* the records of a key that were processed: archived and counted in processedRecords
ProcessedOf(pk) ==
    {i \in DOMAIN stream : stream[i].partitionKey = pk
                           /\ \E j \in DOMAIN streamOut.processed : streamOut.processed[j] = i}
RECURSIVE SumValues(_)
SumValues(idx) ==
    IF idx = {} THEN Int_(0)
    ELSE LET i == CHOOSE k \in idx : TRUE
             payload == Decode(stream[i].data)
         IN  AddFloat(SumValues(idx \ {i}),
                      IF HasValue(payload) THEN PyFloat(payload.m["value"]).v ELSE Int_(0))
\* C26: after a batch, the metric stored for a partition key has count equal
\* to the number of that key's records that were processed, total_value equal
\* to the sum of their values and average_value equal to total_value / count;
\* the stored counts add up to processedRecords when every metric was stored.
C26_MetricsMatchProcessed ==
    streamOut.called
    => /\ \A x \in BagToSet(metrics) :
             LET idx == ProcessedOf(x["partition_key"].s)
             IN  /\ x["count"].n = Cardinality(idx)
                 /\ SameNumber(x["total_value"], SumValues(idx))
                 /\ x["average_value"].n * x["total_value"].d * x["count"].n
                       = x["total_value"].n * x["average_value"].d
       /\ streamOut.metricFails = {}
             => streamOut.processedRecords
                   = Cardinality({i \in DOMAIN stream :
                        \E x \in BagToSet(metrics) :
                           /\ x["partition_key"].s = stream[i].partitionKey
                           /\ i \in ProcessedOf(x["partition_key"].s)})

\* C27: whatever room the body of a send names, every connection that gets
\* a delivery attempt is registered in the room stored for the sender.
C27_DeliveredInSendersRoom ==
    [][\A id \in Senders, body \in Bodies :
         \A order \in Orders(ScanRoom(connections, BodyField(body, "room", "default"))) :
            \A failPost \in SUBSET ScanRoom(connections, BodyField(body, "room", "default")) :
               (id \in ConnectionIds(connections) /\ Send(id, body, order, failPost, FALSE, FALSE))
               => BagToSet(attempts')
                     \subseteq ScanRoom(connections, ConnectionOf(connections, id).room)
      ]_vars

(***************************************************************************)
(* The default route on its own: connections come and go, and any sender   *)
(* sends any body while every delivery succeeds                            *)
(***************************************************************************)
SendAny ==
    \E id \in Senders, body \in Bodies, putFails \in BOOLEAN :
        \E order \in Orders(ScanRoom(connections, BodyField(body, "room", "default"))) :
            Send(id, body, order, {}, FALSE, putFails)
ConnectAny == \E id \in Conns, room \in Rooms : Connect(id, room, "anonymous", FALSE, FALSE)
DisconnectAny == \E id \in Conns : Disconnect(id, FALSE)
NextFanOut == ConnectAny \/ DisconnectAny \/ SendAny
SpecFanOut == InitChat /\ [][NextFanOut]_vars

StoredBy(msgs, id, body, now) ==
    \E x \in BagToSet(msgs) :
        /\ x.connection_id = id /\ x.timestamp = now
        /\ x.room = BodyField(body, "room", "default")
        /\ x.message = BodyField(body, "message", "")
        /\ x.type = BodyField(body, "type", "message")
\* C28: in the default handler a delivery is attempted only for a message the
\* same invocation has stored; a send from a connection id that is not in the
\* table answers 404, stores nothing and attempts nothing; a send of another
\* type than 'message' is stored and not broadcast.
C28_StoredBeforeFanOut ==
    [][/\ (chatOut'.called /\ chatOut'.route = "default" /\ attempts' # EmptyBag)
            => /\ lastBroadcast'.called
               /\ \E x \in BagToSet(messages') :
                     /\ x.timestamp = clock /\ x.room = lastBroadcast'.room
                     /\ x.type = "message"
                     /\ x.connection_id \in ConnectionIds(connections)
       /\ \A id \in Senders, body \in Bodies :
            ( /\ chatOut'.called /\ chatOut'.route = "default" /\ ~lastBroadcast'.called
              /\ Send(id, body, <<>>, {}, FALSE, FALSE) )
            => /\ id \notin ConnectionIds(connections)
                     => /\ chatOut'.statusCode = 404
                        /\ messages' = messages /\ attempts' = EmptyBag
               /\ (id \in ConnectionIds(connections)
                   /\ BodyField(body, "type", "message") # "message")
                     => /\ StoredBy(messages', id, body, clock)
                        /\ attempts' = EmptyBag /\ ~lastBroadcast'.called
      ]_vars
C28_Witness ==
    /\ Broadcasted /\ chatOut.statusCode = 200
    /\ attempts # EmptyBag
    /\ \E x \in BagToSet(messages) :
          /\ x.timestamp = clock /\ x.room = lastBroadcast.room /\ x.type = "message"
          /\ x.connection_id \in Senders

\* C29: a create_item request answered 201 leaves one item more in the items
\* table than there was, at whatever clock value it is served.
C29_CreateAddsItem ==
    [][\A body \in CreateBodies :
         ( /\ ApiStep(CreateHandler(Map("body" :> body), items_table, clock, FALSE))
           /\ apiOut'.statusCode = 201 )
         => BagCardinality(items_table') = BagCardinality(items_table) + 1
      ]_vars

(***************************************************************************)
(* Two delete_item requests for one id at once: each reads the item        *)
(* (get_item) and then deletes it (delete_item), the four store calls       *)
(* coming in any order                                                     *)
(***************************************************************************)
Request == [pc |-> "start", statusCode |-> 0]
Answer(p, code) == [running EXCEPT ![p] = [pc |-> "done", statusCode |-> code]]
\* lines 16-39: up to the answer of get_item
DeleteRead(p) ==
    /\ running.kind = "delete" /\ running[p].pc = "start"
    /\ \E storeFails \in BOOLEAN :
          running' =
             IF PathIdRaises(running.event) THEN Answer(p, 500)
             ELSE IF ~Truthy(PathId(running.event)) THEN Answer(p, 400)
             ELSE IF storeFails THEN Answer(p, 500)
             ELSE IF ItemsWith(items_table, PathId(running.event)) = {} THEN Answer(p, 404)
             ELSE [running EXCEPT ![p].pc = "found"]
    /\ UNCHANGED <<etlVars, chatVars, orderVars, apiVars, inventory, inventoryOut, streamVars>>
\* lines 41-54: delete_item and the answer
DeleteWrite(p) ==
    /\ running.kind = "delete" /\ running[p].pc = "found"
    /\ \E storeFails \in BOOLEAN :
          IF storeFails
          THEN running' = Answer(p, 500) /\ items_table' = items_table
          ELSE /\ running' = Answer(p, 200)
               /\ items_table' = DeleteApiItem(items_table, PathId(running.event))
    /\ UNCHANGED <<etlVars, chatVars, orderVars, apiOut, inventory, inventoryOut, streamVars>>
StoredItems ==
    {NewItem(("name" :> Str("widget")), n) : n \in 1..MaxClock}
InitDeletes ==
    /\ \E S \in SUBSET StoredItems : items_table = SetToBag(S)
    /\ \E event \in {ById(ItemId(n)) : n \in 1..MaxClock} \cup {ById(Str(""))} :
          running = [kind |-> "delete", event |-> Map(event), a |-> Request, b |-> Request]
    /\ apiOut = NoApiResp /\ inventory = EmptyBag /\ inventoryOut = NoInventoryResp
    /\ source = <<>> /\ staging = EmptyBucket /\ dest = EmptyBag /\ clock = 0
    /\ extractOut = NoExtractResp /\ transformOut = NoTransformResp
    /\ loadOut = NoLoadResp /\ lastLoad = NoLoad
    /\ ChatIdle /\ OrdersIdle /\ StreamIdle
NextDeletes == \E p \in {"a", "b"} : DeleteRead(p) \/ DeleteWrite(p)
SpecDeletes == InitDeletes /\ [][NextDeletes]_vars

\* C30: of two concurrent delete_item requests for one id at most one is
\* answered 200, and once a delete has been answered 200 the item is not in
\* the table (get_item answers 404).
C30_OneDeleteSucceeds ==
    /\ ~(running.a.statusCode = 200 /\ running.b.statusCode = 200)
    /\ (running.a.statusCode = 200 \/ running.b.statusCode = 200)
          => GetHandler(running.event, items_table, FALSE).resp.statusCode = 404

====
